---------------------------- MODULE Spec2Model ----------------------------
(***************************************************************************)
(* richcli: the help-text option extractor (MagnetUI._parse_help_text),    *)
(* the navigation classification (BaseUI.check_navigation and              *)
(* raise_if_navigation) and the interactive command assembler              *)
(* (MagnetUI._build_interactive_command).                                  *)
(*                                                                         *)
(* A Python string is a sequence of one-character strings; Python's None   *)
(* is the value None below, which is no such sequence.                     *)
(***************************************************************************)
EXTENDS Integers, Sequences, FiniteSets, TLC

VARIABLES
    help_text,     \* MagnetUI.help_text
    line_specs,    \* history: what the lines of help_text were written from
    options,       \* MagnetUI.options, the parsed option model
    parsed,        \* _parse_help_text has returned
    nav_value,     \* the argument of check_navigation / raise_if_navigation
    nav_core,      \* history: the word nav_value was written from
    nav_result,    \* what check_navigation returned (Unset before the call)
    nav_raised,    \* what raise_if_navigation did (NotCalled before the call)
    command_name,  \* MagnetUI.command_name
    pc,            \* position in _build_interactive_command
    command,       \* the local list `command`, the draft
    opt_idx,       \* 1-based index of the local `opt` while its value is asked
    cwd,           \* the process's working directory, os.getcwd()
    browse_dir,    \* the local current_dir of browse_files
    unreadable,    \* the directories os.listdir refuses to list
    popen_calls,   \* the argument lists subprocess.Popen was called with
    outcome,       \* how _build_interactive_command ended
    last_input,    \* history: the answer the last step consumed
    last_prompt,   \* history: the prompt that answer was given to
    exit_seen,     \* history: an answer classified Exit was received
    script,        \* history: how much of ScenarioInputs has been typed
    command_history, \* BaseUI.command_history
    returncode,    \* process.returncode of the command that was run
    isatty,        \* sys.stdin.isatty()
    template,      \* the file _save_command_template wrote
    provided,      \* the help_text argument of MagnetUI.__init__
    run_h,         \* what running [command_name, "-h"] gives
    run_help,      \* what running [command_name, "--help"] gives
    invoked,       \* the help flags __init__ has run the program with
    menu_pc,       \* position in MainUI.run and in the tool it started
    exit_raised,   \* history: a prompt below the main menu gave an Exit signal
    pdf_files,     \* how many PDF files the directory holds
    current_pdf,   \* PDFToolsUI.current_pdf is set
    pdf_op,        \* the key chosen in the PDF menu
    step,          \* the prompt of the operation that is shown
    ranges,        \* the local list `ranges` of split_pdf_menu
    extensions,    \* the argument `extensions` of browse_files
    table,         \* the rows of the table browse_files has printed last
    selected       \* how browse_files ended, and the path it returned

vars == <<help_text, line_specs, options, parsed, nav_value, nav_core,
          nav_result, nav_raised, command_name, pc, command, opt_idx,
          cwd, browse_dir, unreadable, popen_calls, outcome, last_input,
          last_prompt, exit_seen, script, command_history, returncode,
          isatty, template, provided, run_h, run_help, invoked, menu_pc,
          exit_raised, pdf_files, current_pdf, pdf_op, step, ranges,
          extensions, table, selected>>

parseVars == <<help_text, line_specs, options, parsed>>
navVars   == <<nav_value, nav_core, nav_result, nav_raised>>
sessVars  == <<command_history, returncode, isatty, template>>
fetchVars == <<provided, run_h, run_help, invoked>>
menuVars  == <<menu_pc, exit_raised, pdf_files, current_pdf, pdf_op, step, ranges>>
browserVars == <<extensions, table, selected>>
buildVars == <<command_name, pc, command, opt_idx, cwd, browse_dir, unreadable,
               popen_calls, outcome, last_input, last_prompt, exit_seen, script,
               sessVars>>

-----------------------------------------------------------------------------
(* Characters and Python's str methods                                      *)

None == <<"None">>

UpperSeq == <<"A","B","C","D","E","F","G","H","I","J","K","L","M",
              "N","O","P","Q","R","S","T","U","V","W","X","Y","Z">>
LowerSeq == <<"a","b","c","d","e","f","g","h","i","j","k","l","m",
              "n","o","p","q","r","s","t","u","v","w","x","y","z">>
DigitSeq == <<"0","1","2","3","4","5","6","7","8","9">>

Range(s) == {s[i] : i \in 1..Len(s)}

Upper == Range(UpperSeq)
Lower == Range(LowerSeq)
Digit == Range(DigitSeq)

\* str.isspace for the characters of the model
IsSpace(c) == c \in {" ", "\t", "\n", "\r", "\f"}

\* str.lower, one character
LowerChar(c) ==
    IF c \in Upper THEN LowerSeq[CHOOSE i \in 1..26 : UpperSeq[i] = c] ELSE c

\* str.lower
StrLower(s) == [i \in 1..Len(s) |-> LowerChar(s[i])]

RECURSIVE LStrip(_)
LStrip(s) == IF s # <<>> /\ IsSpace(Head(s)) THEN LStrip(Tail(s)) ELSE s

RECURSIVE RStrip(_)
RStrip(s) ==
    IF s # <<>> /\ IsSpace(s[Len(s)]) THEN RStrip(SubSeq(s, 1, Len(s) - 1)) ELSE s

\* str.strip
StrStrip(s) == RStrip(LStrip(s))

\* str.startswith
StartsWith(s, p) == Len(s) >= Len(p) /\ SubSeq(s, 1, Len(p)) = p

\* c in s, for a one-character c
HasChar(s, c) == \E i \in 1..Len(s) : s[i] = c

\* str.split(sep) for a one-character separator: the pieces between separators
RECURSIVE SplitOn(_, _)
SplitOn(s, sep) ==
    IF ~HasChar(s, sep) THEN <<s>>
    ELSE LET i == CHOOSE j \in 1..Len(s) :
                     s[j] = sep /\ \A k \in 1..(j - 1) : s[k] # sep
         IN  <<SubSeq(s, 1, i - 1)>> \o SplitOn(SubSeq(s, i + 1, Len(s)), sep)

\* str.split(): the maximal runs of non-whitespace characters
RECURSIVE SplitWords(_)
SplitWords(s) ==
    LET t == LStrip(s)
    IN  IF t = <<>> THEN <<>>
        ELSE LET n == IF \E j \in 1..Len(t) : IsSpace(t[j])
                      THEN (CHOOSE j \in 1..Len(t) :
                               IsSpace(t[j]) /\ \A k \in 1..(j - 1) : ~IsSpace(t[k])) - 1
                      ELSE Len(t)
             IN  <<SubSeq(t, 1, n)>> \o SplitWords(SubSeq(t, n + 1, Len(t)))

\* sep.join(parts)
RECURSIVE Join(_, _)
Join(parts, sep) ==
    IF parts = <<>> THEN <<>>
    ELSE IF Len(parts) = 1 THEN parts[1]
    ELSE parts[1] \o sep \o Join(Tail(parts), sep)

-----------------------------------------------------------------------------
(* Python's re.match for the three option patterns                          *)

WordChars == Upper \cup Lower \cup Digit \cup {"_"}

\* Membership of a character in a character class of the patterns:
\* \s, \w, [\w-], [A-Z_], ".", and the literals "-" and ","
ClassHas(cls, c) ==
    CASE cls = "space"    -> IsSpace(c)
      [] cls = "word"     -> c \in WordChars
      [] cls = "worddash" -> c \in WordChars \cup {"-"}
      [] cls = "upper"    -> c \in Upper \cup {"_"}
      [] cls = "any"      -> c # "\n"
      [] cls = "dash"     -> c = "-"
      [] cls = "comma"    -> c = ","

\* A pattern item: a character class repeated at least min times, at most once
\* unless many; or the start of an optional group that ends before item skip.
Item(cls, min, many) == [cls |-> cls, min |-> min, many |-> many, skip |-> 0]
OptGroup(skip) == [cls |-> "opt", min |-> 0, many |-> FALSE, skip |-> skip]

\* the first pattern with the placeholder written \w+ instead of [A-Z_]+
PatternShortLongAnyCase ==
    [items  |-> << Item("space", 0, TRUE), Item("dash", 1, FALSE),
                   Item("word", 1, TRUE), Item("comma", 0, FALSE),
                   Item("space", 1, TRUE), Item("dash", 1, FALSE),
                   Item("dash", 1, FALSE), Item("worddash", 1, TRUE),
                   OptGroup(12), Item("space", 1, TRUE), Item("word", 1, TRUE),
                   Item("space", 1, TRUE), Item("any", 1, TRUE) >>,
     groups |-> << <<2, 3>>, <<6, 8>>, <<11, 11>>, <<13, 13>> >>]

\* ^\s*(-\w+),?\s+(--[\w-]+)(?:\s+([A-Z_]+))?\s+(.+)$
PatternShortLong ==
    [items  |-> << Item("space", 0, TRUE), Item("dash", 1, FALSE),
                   Item("word", 1, TRUE), Item("comma", 0, FALSE),
                   Item("space", 1, TRUE), Item("dash", 1, FALSE),
                   Item("dash", 1, FALSE), Item("worddash", 1, TRUE),
                   OptGroup(12), Item("space", 1, TRUE), Item("upper", 1, TRUE),
                   Item("space", 1, TRUE), Item("any", 1, TRUE) >>,
     groups |-> << <<2, 3>>, <<6, 8>>, <<11, 11>>, <<13, 13>> >>]

\* ^\s*(--[\w-]+)(?:\s+([A-Z_]+))?\s+(.+)$
PatternLong ==
    [items  |-> << Item("space", 0, TRUE), Item("dash", 1, FALSE),
                   Item("dash", 1, FALSE), Item("worddash", 1, TRUE),
                   OptGroup(8), Item("space", 1, TRUE), Item("upper", 1, TRUE),
                   Item("space", 1, TRUE), Item("any", 1, TRUE) >>,
     groups |-> << <<2, 4>>, <<7, 7>>, <<9, 9>> >>]

\* the third pattern with the placeholder written \w+ instead of [A-Z_]+
PatternShortAnyCase ==
    [items  |-> << Item("space", 0, TRUE), Item("dash", 1, FALSE),
                   Item("word", 1, TRUE),
                   OptGroup(7), Item("space", 1, TRUE), Item("word", 1, TRUE),
                   Item("space", 1, TRUE), Item("any", 1, TRUE) >>,
     groups |-> << <<2, 3>>, <<6, 6>>, <<8, 8>> >>]

\* ^\s*(-\w+)(?:\s+([A-Z_]+))?\s+(.+)$
PatternShort ==
    [items  |-> << Item("space", 0, TRUE), Item("dash", 1, FALSE),
                   Item("word", 1, TRUE),
                   OptGroup(7), Item("space", 1, TRUE), Item("upper", 1, TRUE),
                   Item("space", 1, TRUE), Item("any", 1, TRUE) >>,
     groups |-> << <<2, 3>>, <<6, 6>>, <<8, 8>> >>]

\* the list `patterns`, in the order the loop tries them
patterns == <<PatternShortLong, PatternLong, PatternShort>>

\* the number of characters from pos on that belong to cls
RECURSIVE Run(_, _, _)
Run(cls, line, pos) ==
    IF pos <= Len(line) /\ ClassHas(cls, line[pos])
    THEN 1 + Run(cls, line, pos + 1) ELSE 0

NoMatch == [ok |-> FALSE, ends |-> <<>>]

\* The backtracking search of the regex engine: items k.. against line from pos,
\* every quantifier greedy, "$" after the last item. ends[i] is the position
\* after item i, 0 for the items of an optional group that took no part.
RECURSIVE MatchFrom(_, _, _, _)
RECURSIVE TryCount(_, _, _, _, _)
MatchFrom(items, k, line, pos) ==
    IF k > Len(items) THEN [ok |-> pos = Len(line) + 1, ends |-> <<>>]
    ELSE IF items[k].cls = "opt"
    THEN LET taken == MatchFrom(items, k + 1, line, pos)
         IN  IF taken.ok THEN [ok |-> TRUE, ends |-> <<pos>> \o taken.ends]
             ELSE LET left == MatchFrom(items, items[k].skip, line, pos)
                  IN  IF left.ok
                      THEN [ok |-> TRUE,
                            ends |-> <<pos>>
                                     \o [i \in 1..(items[k].skip - k - 1) |-> 0]
                                     \o left.ends]
                      ELSE NoMatch
    ELSE LET run == Run(items[k].cls, line, pos)
             hi  == IF items[k].many \/ run = 0 THEN run ELSE 1
         IN  TryCount(items, k, line, pos, hi)

TryCount(items, k, line, pos, n) ==
    IF n < items[k].min THEN NoMatch
    ELSE LET rest == MatchFrom(items, k + 1, line, pos + n)
         IN  IF rest.ok THEN [ok |-> TRUE, ends |-> <<pos + n>> \o rest.ends]
             ELSE TryCount(items, k, line, pos, n - 1)

\* match.groups(): the text of each group, None for a group that took no part
GroupText(line, ends, g) ==
    IF ends[g[2]] = 0 THEN None
    ELSE SubSeq(line, IF g[1] = 1 THEN 1 ELSE ends[g[1] - 1], ends[g[2]] - 1)

\* re.match(pattern, line)
ReMatch(pattern, line) ==
    LET r == MatchFrom(pattern.items, 1, line, 1)
    IN  IF r.ok
        THEN [matched |-> TRUE,
              groups  |-> [i \in 1..Len(pattern.groups) |->
                              GroupText(line, r.ends, pattern.groups[i])]]
        ELSE [matched |-> FALSE, groups |-> <<>>]

-----------------------------------------------------------------------------
(* MagnetUI._parse_help_text                                                *)

\* the literals "Option flag" and "usage"
OptionFlagText == <<"O","p","t","i","o","n"," ","f","l","a","g">>
UsageText == <<"u","s","a","g","e">>

\* x or "" in Python: None and the empty string both give the empty string
OrEmpty(x) == IF x = None THEN <<>> ELSE x

\* an add_option that never consults `seen`
NeverSeen(st, key) == FALSE

\* if key in seen: return
AlreadySeen(st, key) == key \in st.seen

\* add_option: append the descriptor unless its (short, long) key was seen
add_option(st, short_opt, long_opt, arg_name, description) ==
    LET key == <<OrEmpty(short_opt), OrEmpty(long_opt)>>
    IN  IF AlreadySeen(st, key) THEN st
        ELSE [seen    |-> st.seen \cup {key},
              options |-> Append(st.options,
                            [short          |-> short_opt,
                             long           |-> long_opt,
                             arg_name       |-> arg_name,
                             description    |-> StrStrip(description),
                             requires_value |-> arg_name # None])]

\* the first pattern of `patterns`, from index k on, that matches the line
RECURSIVE FirstMatchReversed(_, _)
RECURSIVE FirstMatch(_, _)
\* a loop that tries the patterns from the last to the first
FirstMatchReversed(line, k) ==
    IF k > Len(patterns) THEN [matched |-> FALSE, groups |-> <<>>]
    ELSE LET m == ReMatch(patterns[Len(patterns) + 1 - k], line)
         IN  IF m.matched THEN m ELSE FirstMatchReversed(line, k + 1)

\* for pattern in patterns: ... if match: ... break
FirstMatch(line, k) ==
    IF k > Len(patterns) THEN [matched |-> FALSE, groups |-> <<>>]
    ELSE LET m == ReMatch(patterns[k], line)
         IN  IF m.matched THEN m ELSE FirstMatch(line, k + 1)

\* a loop body that drops the flag of a three-group match
AddFromGroupsDropsFlag(st, groups) ==
    IF Len(groups) = 4
    THEN add_option(st, groups[1], groups[2], groups[3], groups[4])
    ELSE IF Len(groups) = 3
    THEN add_option(st, None, None, groups[2], groups[3])
    ELSE st

\* what the loop body does with the groups of the first matching pattern:
\* four groups are (short, long, arg, description); three groups are taken
\* as (long, arg, description)
AddFromGroups(st, groups) ==
    IF Len(groups) = 4
    THEN add_option(st, groups[1], groups[2], groups[3], groups[4])
    ELSE IF Len(groups) = 3
    THEN add_option(st, None, groups[1], groups[2], groups[3])
    ELSE st

\* one iteration of `for line in help_text.split("\n")`
ParseLine(st, line) ==
    LET m == FirstMatch(line, 1)
    IN  IF m.matched THEN AddFromGroups(st, m.groups) ELSE st

RECURSIVE ParseLines(_, _)
ParseLines(st, lines) ==
    IF lines = <<>> THEN st ELSE ParseLines(ParseLine(st, Head(lines)), Tail(lines))

\* the primary pass: every line against the patterns
PrimaryPass(text) ==
    ParseLines([seen |-> {}, options |-> <<>>], SplitOn(text, "\n"))

\* re.findall(r"\[([^\]]+)\]", text) from position pos on
RECURSIVE BracketTokens(_, _)
BracketTokens(text, pos) ==
    IF pos > Len(text) THEN <<>>
    ELSE IF text[pos] # "[" THEN BracketTokens(text, pos + 1)
    ELSE LET closes == {j \in (pos + 1)..Len(text) : text[j] = "]"}
         IN  IF closes = {} THEN BracketTokens(text, pos + 1)
             ELSE LET j == CHOOSE c \in closes : \A d \in closes : c <= d
                  IN  IF j = pos + 1 THEN BracketTokens(text, pos + 1)
                      ELSE <<SubSeq(text, pos + 1, j - 1)>>
                           \o BracketTokens(text, j + 1)

\* for flag_char in packed_flags: add_option("-" + flag_char, None, None, ...)
RECURSIVE AddPackedFlags(_, _)
AddPackedFlags(st, packed_flags) ==
    IF packed_flags = <<>> THEN st
    ELSE AddPackedFlags(
             add_option(st, <<"-", Head(packed_flags)>>, None, None, OptionFlagText),
             Tail(packed_flags))

\* a fallback that never unpacks a bundle
NeverPacked(token) == FALSE

\* a token like [-46AaCf]: starts with "-", holds no space, longer than 2
IsPackedToken(token) ==
    StartsWith(token, <<"-">>) /\ ~HasChar(token, " ") /\ Len(token) > 2

\* a fallback without the guards for an empty token
ParseTokenUnguarded(st, raw) ==
    LET token == StrStrip(raw)
        parts == SplitWords(token)
    IN  IF StartsWith(StrLower(token), UsageText) THEN st
        ELSE IF IsPackedToken(token) THEN AddPackedFlags(st, Tail(token))
        ELSE IF parts = <<>> \/ StartsWith(parts[1], <<"-">>)
        THEN add_option(st, IF parts = <<>> THEN None ELSE parts[1], None,
                        IF Len(parts) > 1 THEN parts[2] ELSE None,
                        IF Len(parts) > 1 THEN Join(Tail(parts), <<" ">>)
                        ELSE OptionFlagText)
        ELSE st

\* a fallback that records every flag without its argument name
ParseTokenNoArg(st, raw) ==
    LET token == StrStrip(raw)
        parts == SplitWords(token)
    IN  IF token = <<>> \/ StartsWith(StrLower(token), UsageText) THEN st
        ELSE IF IsPackedToken(token) THEN AddPackedFlags(st, Tail(token))
        ELSE IF parts = <<>> THEN st
        ELSE IF StartsWith(parts[1], <<"-">>)
        THEN add_option(st, parts[1], None, None,
                        IF Len(parts) > 1 THEN Join(Tail(parts), <<" ">>)
                        ELSE OptionFlagText)
        ELSE st

\* a fallback that takes the first word of any token as a flag
ParseTokenAnyWord(st, raw) ==
    LET token == StrStrip(raw)
        parts == SplitWords(token)
    IN  IF token = <<>> \/ StartsWith(StrLower(token), UsageText) THEN st
        ELSE IF IsPackedToken(token) THEN AddPackedFlags(st, Tail(token))
        ELSE IF parts = <<>> THEN st
        ELSE add_option(st, parts[1], None,
                        IF Len(parts) > 1 THEN parts[2] ELSE None,
                        IF Len(parts) > 1 THEN Join(Tail(parts), <<" ">>)
                        ELSE OptionFlagText)

\* one iteration of `for token in bracket_tokens`
ParseToken(st, raw) ==
    LET token == StrStrip(raw)
        parts == SplitWords(token)
    IN  IF token = <<>> \/ StartsWith(StrLower(token), UsageText) THEN st
        ELSE IF IsPackedToken(token) THEN AddPackedFlags(st, Tail(token))
        ELSE IF parts = <<>> THEN st
        ELSE IF StartsWith(parts[1], <<"-">>)
        THEN add_option(st, parts[1], None,
                        IF Len(parts) > 1 THEN parts[2] ELSE None,
                        IF Len(parts) > 1 THEN Join(Tail(parts), <<" ">>)
                        ELSE OptionFlagText)
        ELSE st

RECURSIVE ParseTokens(_, _)
ParseTokens(st, tokens) ==
    IF tokens = <<>> THEN st
    ELSE ParseTokens(ParseToken(st, Head(tokens)), Tail(tokens))

\* the fallback pass: the bracket tokens of the whole text
FallbackPass(st, text) == ParseTokens(st, BracketTokens(text, 1))

\* a parser that runs the fallback pass whatever the primary pass found
NeverFound(st) == FALSE

\* if options: return options
PrimaryFound(st) == st.options # <<>>

\* _parse_help_text
ParseHelpText(text) ==
    LET primary == PrimaryPass(text)
    IN  IF PrimaryFound(primary) THEN primary.options
        ELSE FallbackPass(primary, text).options

-----------------------------------------------------------------------------
(* BaseUI.check_navigation and BaseUI.raise_if_navigation                   *)

Unset == "unset"
NoAction == "none"
NotCalled == [raised |-> FALSE, action |-> Unset]

BackWords == { <<"b">>, <<"b","a","c","k">> }
\* the exit words without "quit"
ExitWordsShort == { <<"q">>, <<"e","x","i","t">> }
ExitWords == { <<"q">>, <<"q","u","i","t">>, <<"e","x","i","t">> }

\* a classification that forgets lower(): only lower-case words are recognised
NormalizeCaseSensitive(value) == StrStrip(value)

\* value.strip().lower()
Normalize(value) == StrLower(StrStrip(value))

\* check_navigation: "back", "exit" or None (NoAction)
check_navigation(value) ==
    IF value = None THEN NoAction
    ELSE IF Normalize(value) \in BackWords THEN "back"
    ELSE IF Normalize(value) \in ExitWords THEN "exit"
    ELSE NoAction

\* an enforcement that raises for Exit only
raise_if_exit_only(value) ==
    LET action == check_navigation(value)
    IN  IF action = "exit"
        THEN [raised |-> TRUE, action |-> action]
        ELSE [raised |-> FALSE, action |-> NoAction]

\* raise_if_navigation: the action of the NavigationAction it raises,
\* NoAction when it returns normally
raise_if_navigation(value) ==
    LET action == check_navigation(value)
    IN  IF action # NoAction
        THEN [raised |-> TRUE, action |-> action]
        ELSE [raised |-> FALSE, action |-> NoAction]

-----------------------------------------------------------------------------
(* The help texts the extractor is run on                                   *)

\* flags, placeholders, descriptions and bracket tokens the lines are written with
S_o ==
    <<"-","o">>
S_v ==
    <<"-","v">>
S_x ==
    <<"-","x">>
S_n ==
    <<"-","n">>
S_u ==
    <<"-","u">>
L_output ==
    <<"-","-","o","u","t","p","u","t">>
L_verbose ==
    <<"-","-","v","e","r","b","o","s","e">>
L_name ==
    <<"-","-","n","a","m","e">>
L_url ==
    <<"-","-","u","r","l">>
A_FILE ==
    <<"F","I","L","E">>
A_NAME ==
    <<"N","A","M","E">>
A_NUM ==
    <<"N","U","M">>
D_output ==
    <<"O","u","t","p","u","t"," ","p","a","t","h">>
D_verbose ==
    <<"E","n","a","b","l","e"," ","v","e","r","b","o","s","e"," ","m","o",
      "d","e">>
D_other ==
    <<"O","t","h","e","r"," ","t","e","x","t">>
D_name ==
    <<"S","e","t"," ","t","h","e"," ","n","a","m","e">>
D_extra ==
    <<"E","x","t","r","a"," ","c","h","e","c","k","s">>
D_url ==
    <<"U","R","L"," ","t","o"," ","f","e","t","c","h">>
D_count ==
    <<"L","i","n","e"," ","c","o","u","n","t">>
D_lower ==
    <<"f","i","l","e"," ","p","a","t","h">>
D_ids ==
    <<"I","D","s"," ","k","e","p","t">>
T_abc ==
    <<"-","a","b","c">>
T_name ==
    <<"-","-","n","a","m","e"," ","N","A","M","E">>
T_afile ==
    <<"-","a"," ","F","I","L","E">>
T_login ==
    <<"-","l"," ","l","o","g","i","n"," ","n","a","m","e">>
T_usage ==
    <<"U","s","a","g","e"," ","n","o","t","e","s">>
T_file ==
    <<"f","i","l","e">>
T_xy ==
    <<" ","-","x","y"," ">>
T_tab == <<"-","p","\t","p","o","r","t">>
T_blank == <<" ">>
P_emptybracket == <<"[","]">>
P_unopened == <<"-","z","]">>
P_unclosed == <<"[","-","z">>
P_usage ==
    <<"u","s","a","g","e",":"," ","t","o","o","l">>
P_options ==
    <<"O","p","t","i","o","n","s",":">>
P_tool ==
    <<"t","o","o","l">>

\* An option line: indentation, the flags, a placeholder, the description
OptLine(indent, short, comma, long, arg, desc) ==
    [kind |-> "opt", indent |-> indent, short |-> short, comma |-> comma,
     long |-> long, arg |-> arg, desc |-> desc, pre |-> <<>>, tokens |-> <<>>]

\* Any other line: free text followed by bracket tokens
RawLine(pre, tokens) ==
    [kind |-> "raw", indent |-> 0, short |-> <<>>, comma |-> FALSE,
     long |-> <<>>, arg |-> <<>>, desc |-> <<>>, pre |-> pre, tokens |-> tokens]

Spaces(n) == [i \in 1..n |-> " "]

RECURSIVE BracketText(_)
BracketText(tokens) ==
    IF tokens = <<>> THEN <<>>
    ELSE <<" ", "[">> \o Head(tokens) \o <<"]">> \o BracketText(Tail(tokens))

\* the text of a line: "  -o, --output FILE   Output path", "usage: tool [-abc]"
LineText(l) ==
    IF l.kind = "opt"
    THEN Spaces(l.indent) \o l.short
         \o (IF l.comma THEN <<",">> ELSE <<>>)
         \o (IF l.short # <<>> /\ l.long # <<>> THEN <<" ">> ELSE <<>>)
         \o l.long
         \o (IF l.arg # <<>> THEN <<" ">> \o l.arg ELSE <<>>)
         \o Spaces(3) \o l.desc
    ELSE IF l.pre = <<>> /\ l.tokens # <<>> THEN Tail(BracketText(l.tokens))
    ELSE l.pre \o BracketText(l.tokens)

OptLines ==
    { OptLine(0, S_o, TRUE, L_output, A_FILE, D_output),
      OptLine(0, S_v, TRUE, L_verbose, <<>>, D_verbose),
      OptLine(0, S_o, TRUE, L_output, <<>>, D_other),
      OptLine(2, <<>>, FALSE, L_name, A_NAME, D_name),
      OptLine(0, S_x, FALSE, <<>>, <<>>, D_extra),
      OptLine(0, S_u, FALSE, L_url, <<>>, D_url),
      OptLine(2, S_n, FALSE, <<>>, A_NUM, D_count),
      OptLine(0, S_x, FALSE, <<>>, <<>>, D_lower),
      OptLine(0, S_n, FALSE, <<>>, <<>>, D_ids),
      OptLine(0, <<>>, FALSE, L_name, <<>>, A_NAME) }

RawLines ==
    { RawLine(P_usage, <<T_abc>>),
      RawLine(<<>>, <<T_name>>),
      RawLine(<<>>, <<T_afile, T_login>>),
      RawLine(P_options, <<>>),
      RawLine(P_tool, <<T_usage, T_file, T_xy>>),
      RawLine(<<>>, <<T_tab>>) }

\* lines with malformed brackets: "[ ]", "[]", "-z]" and the unclosed "[-z"
UnclosedLine == RawLine(P_unclosed, <<>>)

MalformedLines ==
    { RawLine(<<>>, <<T_blank>>),
      RawLine(P_emptybracket, <<>>),
      RawLine(P_unopened, <<>>),
      UnclosedLine }

CorpusLines == OptLines \cup RawLines \cup MalformedLines

\* the most lines a help text of the model has
MaxLines == 2

\* the texts of the model; an unclosed bracket is written on the last line
LineSeqs ==
    { ls \in UNION { [1..n -> CorpusLines] : n \in 0..MaxLines } :
         \A i \in 1..(Len(ls) - 1) : ls[i] # UnclosedLine }

RECURSIVE TextOf(_)
TextOf(ls) ==
    IF ls = <<>> THEN <<>>
    ELSE IF Len(ls) = 1 THEN LineText(ls[1])
    ELSE LineText(ls[1]) \o <<"\n">> \o TextOf(Tail(ls))

-----------------------------------------------------------------------------
(* Python's int(), os.path and the files the browser sees                   *)

DigitValue(c) == (CHOOSE i \in 1..10 : DigitSeq[i] = c) - 1

RECURSIVE DigitsValue(_)
DigitsValue(ds) ==
    IF ds = <<>> THEN 0
    ELSE 10 * DigitsValue(SubSeq(ds, 1, Len(ds) - 1)) + DigitValue(ds[Len(ds)])

\* int(s): surrounding whitespace and a sign are accepted, digits may be
\* grouped by single underscores; anything else is a ValueError (ok = FALSE)
IntParse(s) ==
    LET t      == StrStrip(s)
        signed == t # <<>> /\ Head(t) \in {"+", "-"}
        body   == IF signed THEN Tail(t) ELSE t
        wellFormed ==
            /\ body # <<>>
            /\ \A i \in 1..Len(body) : body[i] \in Digit \cup {"_"}
            /\ body[1] \in Digit /\ body[Len(body)] \in Digit
            /\ \A i \in 1..(Len(body) - 1) : ~(body[i] = "_" /\ body[i + 1] = "_")
        digits == SelectSeq(body, LAMBDA c : c \in Digit)
    IN  IF wellFormed
        THEN [ok |-> TRUE,
              val |-> IF signed /\ Head(t) = "-" THEN 0 - DigitsValue(digits)
                      ELSE DigitsValue(digits)]
        ELSE [ok |-> FALSE, val |-> 0]

RootDir == <<"/">>
WorkDir == <<"/","w">>
SubDir == <<"/","w","/","s","u","b">>
InFile == <<"/","w","/","i","n",".","t","x","t">>
PdfFile == <<"/","w","/","a",".","p","d","f">>
UpperPdf == <<"/","w","/","s","u","b","/","B",".","P","D","F">>

\* the directories and the files of the file system
Dirs == {RootDir, WorkDir, SubDir}
Files == {InFile, PdfFile, UpperPdf}

\* os.path.isdir, os.path.isfile, os.path.exists, os.path.isabs
IsDir(p) == p \in Dirs
IsFile(p) == p \in Files
Exists(p) == IsDir(p) \/ IsFile(p)
IsAbs(p) == StartsWith(p, <<"/">>)

RECURSIVE RStripSlash(_)
RStripSlash(p) ==
    IF p # <<>> /\ p[Len(p)] = "/" THEN RStripSlash(SubSeq(p, 1, Len(p) - 1)) ELSE p

\* os.path.dirname: up to the last "/", trailing slashes dropped unless
\* nothing else is left
Dirname(p) ==
    IF ~HasChar(p, "/") THEN <<>>
    ELSE LET i    == CHOOSE j \in 1..Len(p) :
                         p[j] = "/" /\ \A k \in (j + 1)..Len(p) : p[k] # "/"
             head == SubSeq(p, 1, i)
         IN  IF RStripSlash(head) = <<>> THEN head ELSE RStripSlash(head)

\* os.path.join(a, b)
JoinPath(a, b) ==
    IF IsAbs(b) THEN b
    ELSE IF a = <<>> \/ a[Len(a)] = "/" THEN a \o b
    ELSE a \o <<"/">> \o b

-----------------------------------------------------------------------------
(* BaseUI.browse_files: what one answer to its prompt does                  *)

DotDot == <<".", ".">>

\* One pass of the loop body after the prompt: the browser raises
\* NavigationAction("exit"), returns None on Back, returns a path, or stays in
\* the loop with a new current_dir.
BrowseChoice(dir, choice) ==
    LET action   == check_navigation(choice)
        dir_path == JoinPath(dir, choice)
    IN  IF action = "exit" THEN [kind |-> "exit", dir |-> dir, path |-> None]
        ELSE IF action = "back" THEN [kind |-> "back", dir |-> dir, path |-> None]
        ELSE IF choice = DotDot
        THEN [kind |-> "stay", dir |-> Dirname(dir), path |-> None]
        ELSE IF IsAbs(choice) /\ Exists(choice)
        THEN IF IsDir(choice)
             THEN [kind |-> "stay", dir |-> choice, path |-> None]
             ELSE [kind |-> "return", dir |-> dir, path |-> choice]
        ELSE IF IsDir(dir_path)
        THEN [kind |-> "stay", dir |-> dir_path, path |-> None]
        ELSE IF IsFile(dir_path)
        THEN [kind |-> "return", dir |-> dir, path |-> dir_path]
        ELSE [kind |-> "stay", dir |-> dir, path |-> None]

-----------------------------------------------------------------------------
(* MagnetUI._build_interactive_command                                      *)

\* what the user types
I_0 == <<"0">>
I_1 == <<"1">>
I_2 == <<"2">>
I_3 == <<"3">>
I_b == <<"b">>
I_q == <<"q">>
I_Back == <<" ","B","a","c","k"," ">>
I_quit == <<"q","u","i","t">>
I_Exit == <<"E","x","i","t">>
I_outtxt == <<"o","u","t",".","t","x","t">>
I_browse == <<"b","r","o","w","s","e">>
I_Browse == <<"B","r","o","w","s","e">>
I_intxt == <<"i","n",".","t","x","t">>
I_sub == <<"s","u","b">>
I_nope == <<"n","o","p","e">>
I_yes == <<"y">>
I_no == <<"n">>
ProgTool == <<"t","o","o","l">>
ProgMixed == <<"A","b","-","C">>

\* process.returncode, and the value for no process
ReturnCodes == {0, 1}
NoProcess == 0 - 1

\* the choices of Prompt.ask("Choose an option", choices=["1", "2"]) and of
\* Confirm.ask
BuilderChoices == {I_1, I_2}
ConfirmChoices == {I_yes, I_no}

\* the choices of the action prompt: choices=["1", "2", "3", "b", "q"]
ActionChoices == {I_1, I_2, I_3, I_b, I_q}

\* answers to the prompts that take any text
TextAnswers == {I_0, I_1, I_2, I_3, I_outtxt, I_browse, I_b, I_q, I_Back, I_quit, I_Exit}

\* answers to the value prompt
ValueAnswers == {I_1, I_outtxt, I_browse, I_b, I_q, I_Back, I_quit, I_Exit}

\* answers to the argument prompt: a file name, a text with a blank and a
\* quote, "browse" and "Browse", and the navigation words
I_quoted == <<"a"," ","'","b">>
ArgumentAnswers == (ValueAnswers \ {I_1}) \cup {I_quoted, I_Browse}

\* answers to the prompt of the file browser
BrowserAnswers == {I_intxt, I_sub, DotDot, I_nope, InFile, I_b, I_q, I_Back, I_Exit}

\* the most tokens a draft of the model has
MaxTokens == 4

\* the token an option adds: opt["long"] if opt["long"] else opt["short"]
\* the short form preferred to the long form
FlagTokenShortFirst(opt) ==
    IF opt.short # None /\ opt.short # <<>> THEN opt.short ELSE opt.long

FlagToken(opt) ==
    IF opt.long # None /\ opt.long # <<>> THEN opt.long ELSE opt.short

\* the inputs of the scenario: add option, 1, out.txt, add option, 2, finish
ScenarioInputs == <<I_1, I_1, I_outtxt, I_1, I_2, I_3>>

\* history: the scenario advances while the answers follow it
Track(a) ==
    IF script >= 0 /\ script < Len(ScenarioInputs) /\ ScenarioInputs[script + 1] = a
    THEN script + 1 ELSE 0 - 1

\* history: the answers that are Exit inputs, as typed
ExitAnswers == {I_q, I_quit, I_Exit}
BackAnswers == {I_b, I_Back}

Note(a) ==
    /\ last_input' = a
    /\ last_prompt' = pc
    /\ exit_seen' = (exit_seen \/ a \in ExitAnswers)

\* return from the function without running anything
Abort ==
    /\ pc' = "Done"
    /\ outcome' = "Aborted"

\* Confirm.ask("Change working directory?")
AnswerChdir(yes) ==
    /\ pc = "ChdirConfirm"
    /\ IF yes THEN pc' = "ChdirBrowse" /\ browse_dir' = cwd
              ELSE pc' = "ChoosingAction" /\ browse_dir' = browse_dir
    /\ last_input' = IF yes THEN I_yes ELSE I_no
    /\ last_prompt' = pc
    /\ UNCHANGED <<command, opt_idx, cwd, unreadable, popen_calls, outcome,
                   exit_seen, script, command_name>>

\* browse_files: os.listdir raises PermissionError, the browser moves up
BrowseDenied ==
    /\ pc \in {"ChdirBrowse", "ArgBrowse"}
    /\ browse_dir \in unreadable
    /\ browse_dir' = Dirname(browse_dir)
    /\ UNCHANGED <<pc, command, opt_idx, cwd, unreadable, popen_calls, outcome,
                   last_input, last_prompt, exit_seen, script, command_name>>

\* the browser opened by "Change working directory?": Exit leaves the function
\* by NavigationAction, Back returns None and os.path.isdir(None) raises
\* TypeError, a path is a new working directory only if it is a directory
ChdirBrowseAnswer(a) ==
    /\ pc = "ChdirBrowse"
    /\ browse_dir \notin unreadable
    /\ LET r == BrowseChoice(browse_dir, a)
       IN  /\ browse_dir' = r.dir
           /\ CASE r.kind = "exit"   -> Abort /\ cwd' = cwd
                [] r.kind = "back"   -> pc' = "Done" /\ outcome' = "Crashed" /\ cwd' = cwd
                [] r.kind = "return" -> /\ pc' = "ChoosingAction"
                                        /\ outcome' = outcome
                                        /\ cwd' = IF IsDir(r.path) THEN r.path ELSE cwd
                [] r.kind = "stay"   -> UNCHANGED <<pc, outcome, cwd>>
    /\ Note(a)
    /\ UNCHANGED <<command, opt_idx, unreadable, popen_calls, script, command_name>>

\* Prompt.ask("Select", choices=["1", "2", "3", "b", "q"])
\* an action choice where Back takes the last token off the draft
ChooseActionBackUndoes(a) ==
    /\ pc = "ChoosingAction"
    /\ LET action == check_navigation(a)
       IN  IF action = "exit" THEN Abort /\ command' = command
           ELSE IF action = "back"
           THEN /\ command' = IF Len(command) > 1
                               THEN SubSeq(command, 1, Len(command) - 1)
                               ELSE command
                /\ UNCHANGED <<pc, outcome>>
           ELSE /\ command' = command
                /\ IF a = I_3 THEN pc' = "ConfirmRun" /\ outcome' = "Finished"
                   ELSE IF a = I_1 THEN pc' = "SelectOption" /\ outcome' = outcome
                   ELSE IF a = I_2 THEN pc' = "PositionalPrompt" /\ outcome' = outcome
                   ELSE UNCHANGED <<pc, outcome>>
    /\ Note(a)
    /\ script' = Track(a)
    /\ UNCHANGED <<opt_idx, cwd, browse_dir, unreadable, popen_calls,
                   command_name>>

ChooseAction(a) ==
    /\ pc = "ChoosingAction"
    /\ LET action == check_navigation(a)
       IN  IF action = "exit" \/ action = "back" THEN Abort
           ELSE IF a = I_3 THEN pc' = "ConfirmRun" /\ outcome' = "Finished"
           ELSE IF a = I_1 THEN pc' = "SelectOption" /\ outcome' = outcome
           ELSE IF a = I_2 THEN pc' = "PositionalPrompt" /\ outcome' = outcome
           ELSE UNCHANGED <<pc, outcome>>
    /\ Note(a)
    /\ script' = Track(a)
    /\ UNCHANGED <<command, opt_idx, cwd, browse_dir, unreadable, popen_calls,
                   command_name>>

\* an option prompt where an answer that selects nothing ends the function
AnswerOptionInvalidReturns(a) ==
    /\ pc = "SelectOption"
    /\ LET action     == check_navigation(a)
           n          == IntParse(a)
           choice_idx == n.val - 1
       IN  IF action = "exit" THEN Abort /\ UNCHANGED <<command, opt_idx>>
           ELSE IF action = "back"
           THEN pc' = "ChoosingAction" /\ UNCHANGED <<command, opt_idx, outcome>>
           ELSE IF ~n.ok \/ ~(0 <= choice_idx /\ choice_idx < Len(options))
           THEN Abort /\ UNCHANGED <<command, opt_idx>>
           ELSE IF options[choice_idx + 1].requires_value
           THEN /\ Len(command) + 2 <= MaxTokens
                /\ pc' = "ValuePrompt"
                /\ opt_idx' = choice_idx + 1
                /\ UNCHANGED <<command, outcome>>
           ELSE /\ Len(command) + 1 <= MaxTokens
                /\ command' = Append(command, FlagToken(options[choice_idx + 1]))
                /\ pc' = "ChoosingAction"
                /\ UNCHANGED <<opt_idx, outcome>>
    /\ Note(a)
    /\ script' = Track(a)
    /\ UNCHANGED <<cwd, browse_dir, unreadable, popen_calls, command_name>>

\* Prompt.ask("Select option by number ..."): a number in range selects the
\* option; a flag without value is appended at once
AnswerOption(a) ==
    /\ pc = "SelectOption"
    /\ LET action     == check_navigation(a)
           n          == IntParse(a)
           choice_idx == n.val - 1
       IN  IF action = "exit" THEN Abort /\ UNCHANGED <<command, opt_idx>>
           ELSE IF action = "back" \/ ~n.ok
                   \/ ~(0 <= choice_idx /\ choice_idx < Len(options))
           THEN pc' = "ChoosingAction" /\ UNCHANGED <<command, opt_idx, outcome>>
           ELSE IF options[choice_idx + 1].requires_value
           THEN /\ Len(command) + 2 <= MaxTokens
                /\ pc' = "ValuePrompt"
                /\ opt_idx' = choice_idx + 1
                /\ UNCHANGED <<command, outcome>>
           ELSE /\ Len(command) + 1 <= MaxTokens
                /\ command' = Append(command, FlagToken(options[choice_idx + 1]))
                /\ pc' = "ChoosingAction"
                /\ UNCHANGED <<opt_idx, outcome>>
    /\ Note(a)
    /\ script' = Track(a)
    /\ UNCHANGED <<cwd, browse_dir, unreadable, popen_calls, command_name>>

\* a value prompt where Back keeps the flag that was selected
AnswerValueBackKeepsFlag(a) ==
    /\ pc = "ValuePrompt"
    /\ LET action == check_navigation(a)
       IN  IF action = "exit" THEN Abort /\ command' = command
           ELSE IF action = "back"
           THEN /\ command' = Append(command, FlagToken(options[opt_idx]))
                /\ pc' = "ChoosingAction"
                /\ outcome' = outcome
           ELSE /\ command' = command \o <<FlagToken(options[opt_idx]), a>>
                /\ pc' = "ChoosingAction"
                /\ outcome' = outcome
    /\ opt_idx' = 0
    /\ Note(a)
    /\ script' = Track(a)
    /\ UNCHANGED <<cwd, browse_dir, unreadable, popen_calls, command_name>>

\* a value prompt where the flag is already in the draft when Exit is typed
AnswerValueExitKeepsFlag(a) ==
    /\ pc = "ValuePrompt"
    /\ LET action == check_navigation(a)
       IN  IF action = "exit"
           THEN Abort /\ command' = Append(command, FlagToken(options[opt_idx]))
           ELSE IF action = "back"
           THEN pc' = "ChoosingAction" /\ UNCHANGED <<command, outcome>>
           ELSE /\ command' = command \o <<FlagToken(options[opt_idx]), a>>
                /\ pc' = "ChoosingAction"
                /\ outcome' = outcome
    /\ opt_idx' = 0
    /\ Note(a)
    /\ script' = Track(a)
    /\ UNCHANGED <<cwd, browse_dir, unreadable, popen_calls, command_name>>

\* Prompt.ask("Value for ..."): the flag and the value are appended together
AnswerValue(a) ==
    /\ pc = "ValuePrompt"
    /\ LET action == check_navigation(a)
       IN  IF action = "exit" THEN Abort /\ command' = command
           ELSE IF action = "back"
           THEN pc' = "ChoosingAction" /\ UNCHANGED <<command, outcome>>
           ELSE /\ command' = command \o <<FlagToken(options[opt_idx]), a>>
                /\ pc' = "ChoosingAction"
                /\ outcome' = outcome
    /\ opt_idx' = 0
    /\ Note(a)
    /\ script' = Track(a)
    /\ UNCHANGED <<cwd, browse_dir, unreadable, popen_calls, command_name>>

\* an argument prompt that splits the text at blanks
AnswerPositionalSplits(a) ==
    /\ pc = "PositionalPrompt"
    /\ LET action == check_navigation(a)
       IN  IF action = "exit" THEN Abort /\ UNCHANGED <<command, browse_dir>>
           ELSE IF action = "back"
           THEN pc' = "ChoosingAction" /\ UNCHANGED <<command, browse_dir, outcome>>
           ELSE /\ Len(command) + 1 <= MaxTokens
                /\ IF StrLower(a) = I_browse
                   THEN /\ pc' = "ArgBrowse"
                        /\ browse_dir' = cwd
                        /\ UNCHANGED <<command, outcome>>
                   ELSE /\ command' = command \o SplitWords(a)
                        /\ pc' = "ChoosingAction"
                        /\ UNCHANGED <<browse_dir, outcome>>
    /\ Note(a)
    /\ script' = Track(a)
    /\ UNCHANGED <<opt_idx, cwd, unreadable, popen_calls, command_name>>

\* an argument prompt that knows only the lower-case word "browse"
AnswerPositionalBrowseExact(a) ==
    /\ pc = "PositionalPrompt"
    /\ LET action == check_navigation(a)
       IN  IF action = "exit" THEN Abort /\ UNCHANGED <<command, browse_dir>>
           ELSE IF action = "back"
           THEN pc' = "ChoosingAction" /\ UNCHANGED <<command, browse_dir, outcome>>
           ELSE /\ Len(command) + 1 <= MaxTokens
                /\ IF a = I_browse
                   THEN /\ pc' = "ArgBrowse"
                        /\ browse_dir' = cwd
                        /\ UNCHANGED <<command, outcome>>
                   ELSE /\ command' = Append(command, a)
                        /\ pc' = "ChoosingAction"
                        /\ UNCHANGED <<browse_dir, outcome>>
    /\ Note(a)
    /\ script' = Track(a)
    /\ UNCHANGED <<opt_idx, cwd, unreadable, popen_calls, command_name>>

\* an argument prompt that knows the navigation words in lower case only
AnswerPositionalExactWords(a) ==
    /\ pc = "PositionalPrompt"
    /\ LET action == IF a \in BackWords THEN "back"
                     ELSE IF a \in ExitWords THEN "exit" ELSE NoAction
       IN  IF action = "exit" THEN Abort /\ UNCHANGED <<command, browse_dir>>
           ELSE IF action = "back"
           THEN pc' = "ChoosingAction" /\ UNCHANGED <<command, browse_dir, outcome>>
           ELSE /\ Len(command) + 1 <= MaxTokens
                /\ IF StrLower(a) = I_browse
                   THEN /\ pc' = "ArgBrowse"
                        /\ browse_dir' = cwd
                        /\ UNCHANGED <<command, outcome>>
                   ELSE /\ command' = Append(command, a)
                        /\ pc' = "ChoosingAction"
                        /\ UNCHANGED <<browse_dir, outcome>>
    /\ Note(a)
    /\ script' = Track(a)
    /\ UNCHANGED <<opt_idx, cwd, unreadable, popen_calls, command_name>>

\* Prompt.ask("Argument"): "browse" opens the file browser, other text is
\* appended as it is
AnswerPositional(a) ==
    /\ pc = "PositionalPrompt"
    /\ LET action == check_navigation(a)
       IN  IF action = "exit" THEN Abort /\ UNCHANGED <<command, browse_dir>>
           ELSE IF action = "back"
           THEN pc' = "ChoosingAction" /\ UNCHANGED <<command, browse_dir, outcome>>
           ELSE /\ Len(command) + 1 <= MaxTokens
                /\ IF StrLower(a) = I_browse
                   THEN /\ pc' = "ArgBrowse"
                        /\ browse_dir' = cwd
                        /\ UNCHANGED <<command, outcome>>
                   ELSE /\ command' = Append(command, a)
                        /\ pc' = "ChoosingAction"
                        /\ UNCHANGED <<browse_dir, outcome>>
    /\ Note(a)
    /\ script' = Track(a)
    /\ UNCHANGED <<opt_idx, cwd, unreadable, popen_calls, command_name>>

\* the browser opened by "browse": Exit ends the function, Back (None) adds
\* nothing, a path is appended
ArgBrowseAnswer(a) ==
    /\ pc = "ArgBrowse"
    /\ browse_dir \notin unreadable
    /\ LET r == BrowseChoice(browse_dir, a)
       IN  /\ browse_dir' = r.dir
           /\ CASE r.kind = "exit"   -> Abort /\ command' = command
                [] r.kind = "back"   -> pc' = "ChoosingAction"
                                        /\ UNCHANGED <<command, outcome>>
                [] r.kind = "return" -> /\ pc' = "ChoosingAction"
                                        /\ outcome' = outcome
                                        /\ command' = IF r.path # <<>>
                                                      THEN Append(command, r.path)
                                                      ELSE command
                [] r.kind = "stay"   -> UNCHANGED <<pc, command, outcome>>
    /\ Note(a)
    /\ script' = 0 - 1
    /\ UNCHANGED <<opt_idx, cwd, unreadable, popen_calls, command_name>>

\* a final step that starts the command whatever the answer
AnswerRunIgnoresAnswer(yes, rc) ==
    /\ pc = "ConfirmRun"
    /\ yes \/ rc = NoProcess
    /\ pc' = "Done"
    /\ popen_calls' = Append(popen_calls, command)
    /\ returncode' = rc
    /\ command_history' = command_history
    /\ last_input' = IF yes THEN I_yes ELSE I_no
    /\ last_prompt' = pc
    /\ UNCHANGED <<command, opt_idx, cwd, browse_dir, unreadable, outcome,
                   exit_seen, script, command_name, isatty, template>>

\* Confirm.ask("Run this command?"), subprocess.Popen(command) and
\* process.wait(): rc is the exit status, NoProcess when Popen raised or the
\* answer was no; the result is printed and command_history is not touched
AnswerRun(yes, rc) ==
    /\ pc = "ConfirmRun"
    /\ yes \/ rc = NoProcess
    /\ pc' = "Done"
    /\ popen_calls' = IF yes THEN Append(popen_calls, command) ELSE popen_calls
    /\ returncode' = rc
    /\ command_history' = command_history
    /\ last_input' = IF yes THEN I_yes ELSE I_no
    /\ last_prompt' = pc
    /\ UNCHANGED <<command, opt_idx, cwd, browse_dir, unreadable, outcome,
                   exit_seen, script, command_name, isatty, template>>

\* no template file has been written
NoTemplate == [path |-> None, command_name |-> None, options |-> <<>>]

\* module_name = command_name.lower().replace("-", "_") + "_ui.py"
TemplateModule(name) ==
    [i \in 1..Len(name) |-> IF name[i] = "-" THEN "_" ELSE LowerChar(name[i])]
    \o <<"_","u","i",".","p","y">>

\* _save_command_template: the file written at os.getcwd()/module_name holds
\* the command name and the option model
SaveCommandTemplate ==
    template' = [path         |-> JoinPath(cwd, TemplateModule(command_name)),
                 command_name |-> command_name,
                 options      |-> options]

\* a builder that starts the assembler although stdin is not a terminal
BuilderPipedEntersAssembler(written) ==
    /\ pc = "Builder"
    /\ ~isatty
    /\ pc' = "ChdirConfirm"
    /\ command' = <<command_name>>
    /\ UNCHANGED <<opt_idx, cwd, browse_dir, unreadable, popen_calls, outcome,
                   last_input, last_prompt, exit_seen, script, command_name,
                   sessVars>>

\* self._save_command_template() called below interactive_ui_builder: the
\* file is written, or open()/write() raises OSError, which leaves the
\* builder and is caught and printed by `except Exception` of run_magnet
SaveOrFail(written) ==
    IF written
    THEN SaveCommandTemplate /\ outcome' = "Template"
    ELSE template' = template /\ outcome' = "Crashed"

\* interactive_ui_builder with stdin not a terminal: the template is written
\* and the function returns
BuilderPiped(written) ==
    /\ pc = "Builder"
    /\ ~isatty
    /\ SaveOrFail(written)
    /\ pc' = "Done"
    /\ UNCHANGED <<command, opt_idx, cwd, browse_dir, unreadable, popen_calls,
                   last_input, last_prompt, exit_seen, script, command_name,
                   command_history, returncode, isatty>>

\* Prompt.ask("Choose an option", choices=["1", "2"]): "2" writes the
\* template, "1" enters _build_interactive_command, where
\* command = [self.command_name]
BuilderChoose(a, written) ==
    /\ pc = "Builder"
    /\ isatty
    /\ IF a = I_2
       THEN /\ SaveOrFail(written)
            /\ pc' = "Done"
            /\ command' = command
       ELSE /\ template' = template
            /\ pc' = "ChdirConfirm"
            /\ outcome' = outcome
            /\ command' = <<command_name>>
    /\ Note(a)
    /\ UNCHANGED <<opt_idx, cwd, browse_dir, unreadable, popen_calls, script,
                   command_name, command_history, returncode, isatty>>

\* input() meets the end of standard input at a prompt: EOFError leaves every
\* loop of the session and reaches `except EOFError` of run_magnet, which
\* prints two lines and calls ui._save_command_template(); an OSError raised
\* there is raised inside the handler, where no `except` of run_magnet
\* applies, and leaves run_magnet
PromptEOF(written) ==
    /\ pc \notin {"Idle", "Done"}
    /\ pc = "Builder" => isatty
    /\ pc \in {"ChdirBrowse", "ArgBrowse"} => browse_dir \notin unreadable
    /\ pc' = "Done"
    /\ IF written
       THEN SaveCommandTemplate /\ outcome' = "Template"
       ELSE template' = template /\ outcome' = "Escaped"
    /\ last_input' = None
    /\ last_prompt' = "EndOfInput"
    /\ UNCHANGED <<command, opt_idx, cwd, browse_dir, unreadable, popen_calls,
                   exit_seen, script, command_name, command_history,
                   returncode, isatty>>

\* the prompts that accept only their choices: rich asks again until the
\* answer, trimmed, is one of them (Confirm also lower-cases it)
PromptAccepts(p, a) ==
    CASE p = "Builder"        -> StrStrip(a) \in BuilderChoices
      [] p = "ChoosingAction" -> StrStrip(a) \in ActionChoices
      [] p = "ChdirConfirm"   -> StrLower(StrStrip(a)) \in ConfirmChoices
      [] p = "ConfirmRun"     -> StrLower(StrStrip(a)) \in ConfirmChoices
      [] OTHER                -> TRUE

\* answers tried on the prompts with choices
ChoiceAnswers == {I_b, I_q, I_Back, I_quit, I_Exit, I_nope}

\* an answer a prompt with choices does not accept: "Please select one of the
\* available options" / "Please enter Y or N", and the prompt is shown again;
\* check_navigation is not called
PromptRejects(a) ==
    /\ pc \in {"Builder", "ChoosingAction", "ChdirConfirm", "ConfirmRun"}
    /\ pc = "Builder" => isatty
    /\ ~PromptAccepts(pc, a)
    /\ last_input' = a
    /\ last_prompt' = pc
    /\ UNCHANGED <<pc, command, opt_idx, cwd, browse_dir, unreadable, popen_calls,
                   outcome, exit_seen, script, command_name, sessVars>>

-----------------------------------------------------------------------------
(* The assembler session: MagnetUI is constructed, then                     *)
(* _build_interactive_command runs                                          *)

\* the sessions of the model: the program wrapped and whether stdin is a
\* terminal
Sessions == { <<ProgTool, TRUE>>, <<ProgTool, FALSE>>, <<ProgMixed, FALSE>> }

\* the help texts of the sessions
BuildLineSeqs ==
    { << OptLine(0, S_o, TRUE, L_output, A_FILE, D_output),
         OptLine(0, S_v, TRUE, L_verbose, <<>>, D_verbose) >>,
      << RawLine(P_usage, <<T_abc>>) >>,
      << OptLine(0, S_x, FALSE, <<>>, <<>>, D_extra),
         OptLine(2, S_n, FALSE, <<>>, A_NUM, D_count) >>,
      << RawLine(P_options, <<>>) >> }

ParseIdle ==
    /\ help_text = <<>> /\ line_specs = <<>> /\ options = <<>> /\ parsed = FALSE

NavIdle ==
    /\ nav_value = None /\ nav_core = None
    /\ nav_result = Unset /\ nav_raised = NotCalled

\* the result of a run that could not be started (subprocess.run raised);
\* also the value of a run that is not part of the behaviour
Raised == [raises |-> TRUE, returncode |-> NoProcess, stdout |-> <<>>,
           stderr |-> <<>>]

\* the text was handed to the constructor, no program is run for it
FetchIdle ==
    /\ provided = help_text
    /\ run_h = Raised /\ run_help = Raised
    /\ invoked = <<>>

\* the program was started on one tool (richcli magnet NAME): MainUI is not
\* constructed
MenuIdle ==
    /\ menu_pc = "Direct" /\ exit_raised = FALSE /\ pdf_files = 0
    /\ current_pdf = FALSE /\ pdf_op = None /\ step = 0 /\ ranges = <<>>

\* browse_files is not running
NotBrowsing == [kind |-> "idle", path |-> None]

BrowserIdle ==
    /\ extensions = {} /\ table = {} /\ selected = NotBrowsing

BuildIdle ==
    /\ command_name = ProgTool /\ pc = "Idle" /\ command = <<>> /\ opt_idx = 0
    /\ cwd = WorkDir /\ browse_dir = WorkDir /\ unreadable = {}
    /\ popen_calls = <<>> /\ outcome = "Running" /\ last_input = None
    /\ last_prompt = "Idle" /\ exit_seen = FALSE /\ script = 0
    /\ command_history = <<>> /\ returncode = NoProcess /\ isatty = TRUE
    /\ template = NoTemplate

Init ==
    /\ line_specs \in BuildLineSeqs
    /\ help_text = TextOf(line_specs)
    /\ options = ParseHelpText(help_text)
    /\ parsed = TRUE
    /\ NavIdle
    /\ BrowserIdle
    /\ FetchIdle
    /\ MenuIdle
    /\ \E sess \in Sessions : command_name = sess[1] /\ isatty = sess[2]
    /\ pc = "Builder"
    /\ command = <<>>
    /\ command_history = <<>>
    /\ returncode = NoProcess
    /\ template = NoTemplate
    /\ opt_idx = 0
    /\ cwd = WorkDir
    /\ browse_dir = WorkDir
    /\ unreadable = {SubDir}
    /\ popen_calls = <<>>
    /\ outcome = "Running"
    /\ last_input = None
    /\ last_prompt = "Idle"
    /\ exit_seen = FALSE
    /\ script = 0

\* what a step of the session leaves alone
outsideBuild == <<parseVars, navVars, fetchVars, menuVars, browserVars>>

Next ==
    \/ \E written \in BOOLEAN : BuilderPiped(written) /\ UNCHANGED outsideBuild
    \/ \E a \in BuilderChoices, written \in BOOLEAN :
          BuilderChoose(a, written) /\ UNCHANGED outsideBuild
    \/ \E written \in BOOLEAN : PromptEOF(written) /\ UNCHANGED outsideBuild
    \/ \E a \in ChoiceAnswers : PromptRejects(a) /\ UNCHANGED outsideBuild
    \/ \E yes \in BOOLEAN : AnswerChdir(yes) /\ UNCHANGED <<outsideBuild, sessVars>>
    \/ BrowseDenied /\ UNCHANGED <<outsideBuild, sessVars>>
    \/ \E a \in BrowserAnswers : ChdirBrowseAnswer(a) /\ UNCHANGED <<outsideBuild, sessVars>>
    \/ \E a \in ActionChoices : ChooseAction(a) /\ UNCHANGED <<outsideBuild, sessVars>>
    \/ \E a \in TextAnswers : AnswerOption(a) /\ UNCHANGED <<outsideBuild, sessVars>>
    \/ \E a \in ValueAnswers : AnswerValue(a) /\ UNCHANGED <<outsideBuild, sessVars>>
    \/ \E a \in ArgumentAnswers : AnswerPositional(a) /\ UNCHANGED <<outsideBuild, sessVars>>
    \/ \E a \in BrowserAnswers : ArgBrowseAnswer(a) /\ UNCHANGED <<outsideBuild, sessVars>>
    \/ \E yes \in BOOLEAN, rc \in ReturnCodes \cup {NoProcess} :
          AnswerRun(yes, rc) /\ UNCHANGED outsideBuild

Spec == Init /\ [][Next]_vars

-----------------------------------------------------------------------------
(* The extractor alone: _parse_help_text on every help text of the model    *)

InitParse ==
    /\ line_specs \in LineSeqs
    /\ help_text = TextOf(line_specs)
    /\ options = <<>>
    /\ parsed = FALSE
    /\ NavIdle
    /\ BrowserIdle
    /\ FetchIdle
    /\ MenuIdle
    /\ BuildIdle

\* self.options = self._parse_help_text(help_text)
CallParse ==
    /\ ~parsed
    /\ options' = ParseHelpText(help_text)
    /\ parsed' = TRUE
    /\ UNCHANGED <<help_text, line_specs, navVars, buildVars, browserVars, fetchVars,
                   menuVars>>

NextParse == CallParse

SpecParse == InitParse /\ [][NextParse]_vars

-----------------------------------------------------------------------------
(* The classification alone: check_navigation and raise_if_navigation on    *)
(* every spelling of the words of the model                                 *)

W_b == <<"b">>
W_back == <<"b","a","c","k">>
W_q == <<"q">>
W_quit == <<"q","u","i","t">>
W_exit == <<"e","x","i","t">>
W_backup == <<"b","a","c","k","u","p">>
W_ba_ck == <<"b","a"," ","c","k">>
W_qu == <<"q","u">>
W_exits == <<"e","x","i","t","s">>

\* the words the inputs are written from: trimmed and in lower case
NavCores == {W_b, W_back, W_q, W_quit, W_exit, W_backup, W_ba_ck, W_qu, W_exits,
             I_1, <<>>}

\* the most whitespace characters on either side of a word
MaxPad == 1

Pads == UNION { [1..n -> {" ", "\t"}] : n \in 0..MaxPad }

UpperChar(c) ==
    IF c \in Lower THEN UpperSeq[CHOOSE i \in 1..26 : LowerSeq[i] = c] ELSE c

\* a word as typed: in lower case, in upper case, or capitalised
Casings(w) ==
    { w, [i \in 1..Len(w) |-> UpperChar(w[i])],
      [i \in 1..Len(w) |-> IF i = 1 THEN UpperChar(w[i]) ELSE w[i]] }

Spellings(w) == { l \o c \o r : l \in Pads, r \in Pads, c \in Casings(w) }

InitNav ==
    /\ \/ nav_core \in NavCores /\ nav_value \in Spellings(nav_core)
       \/ nav_core = None /\ nav_value = None
    /\ nav_result = Unset
    /\ nav_raised = NotCalled
    /\ ParseIdle
    /\ BrowserIdle
    /\ FetchIdle
    /\ MenuIdle
    /\ BuildIdle

\* action = self.check_navigation(value)
CallCheckNavigation ==
    /\ nav_result = Unset
    /\ nav_result' = check_navigation(nav_value)
    /\ UNCHANGED <<nav_value, nav_core, nav_raised, parseVars, buildVars, browserVars,
                   fetchVars, menuVars>>

\* self.raise_if_navigation(value)
CallRaiseIfNavigation ==
    /\ nav_raised = NotCalled
    /\ nav_raised' = raise_if_navigation(nav_value)
    /\ UNCHANGED <<nav_value, nav_core, nav_result, parseVars, buildVars, browserVars,
                   fetchVars, menuVars>>

NextNav == CallCheckNavigation \/ CallRaiseIfNavigation

SpecNav == InitNav /\ [][NextNav]_vars

-----------------------------------------------------------------------------
(* Properties of the classification (SpecNav)                               *)

E_Q == <<"Q">>
E_back_padded == <<" ","b","a","c","k"," ">>

\* C9: check_navigation(s) is "back" iff s, trimmed and lower-cased, is exactly
\* b or back, "exit" iff it is exactly q, quit or exit, and no signal
\* otherwise; "Q", " back " and "quit" give a signal and "backup" gives none.
NavClassification ==
    (nav_result # Unset /\ nav_core # None) =>
        /\ nav_result \in {"back", "exit", NoAction}
        /\ (nav_result = "back") <=> (nav_core \in {W_b, W_back})
        /\ (nav_result = "exit") <=> (nav_core \in {W_q, W_quit, W_exit})
        /\ (nav_value = E_Q => nav_result = "exit")
        /\ (nav_value = E_back_padded => nav_result = "back")
        /\ (nav_value = W_quit => nav_result = "exit")
        /\ (nav_value = W_backup => nav_result = NoAction)

\* a padded, capitalised word has been classified
NavClassificationWitness ==
    /\ nav_value = E_back_padded
    /\ nav_result = "back"

\* C10: raise_if_navigation(s) raises NavigationAction(k) exactly when
\* check_navigation(s) returns k, and returns normally when it returns none.
EnforceAgreesWithClassify ==
    (nav_result # Unset /\ nav_raised # NotCalled) =>
        /\ nav_raised.raised <=> (nav_result \in {"back", "exit"})
        /\ nav_raised.raised => nav_raised.action = nav_result
        /\ ~nav_raised.raised => nav_raised.action = NoAction

\* both calls were made on a Back input and the second one raised
EnforceAgreesWitness ==
    /\ nav_result = "back"
    /\ nav_raised = [raised |-> TRUE, action |-> "back"]
    /\ nav_core = W_back

-----------------------------------------------------------------------------
(* Properties of the extractor (SpecParse)                                  *)

\* what a reader of the help text expects of a line, from what the line was
\* written with
IsPlaceholderWord(w) == w # <<>> /\ \A i \in 1..Len(w) : w[i] \in Upper \cup {"_"}

\* the placeholder a line carries: the one it was written with, or a first
\* word in capitals/underscores followed by more text
LinePlaceholder(l) ==
    LET w == SplitWords(l.desc)
    IN  IF l.arg # <<>> THEN l.arg
        ELSE IF Len(w) >= 2 /\ IsPlaceholderWord(w[1]) THEN w[1]
        ELSE None

\* the description that follows the placeholder
LineDescription(l) ==
    IF l.arg = <<>> /\ LinePlaceholder(l) # None
    THEN LStrip(SubSeq(l.desc, Len(LinePlaceholder(l)) + 1, Len(l.desc)))
    ELSE l.desc

\* the flag a line is known by: its long flag, else its short flag
LineFlag(l) == IF l.long # <<>> THEN l.long ELSE l.short

\* the descriptor d is a descriptor of the option of line l
LineMakes(l, d) ==
    IF l.short # <<>> /\ l.long # <<>>
    THEN d.short = l.short /\ d.long = l.long
    ELSE /\ LineFlag(l) \in {d.short, d.long}
         /\ None \in {d.short, d.long}

SameOption(l1, l2) == l1.short = l2.short /\ l1.long = l2.long

\* the lines that are the first of their option, in order
RECURSIVE FirstOccurrences(_, _)
FirstOccurrences(ls, k) ==
    IF k > Len(ls) THEN <<>>
    ELSE IF \E j \in 1..(k - 1) : SameOption(ls[j], ls[k])
    THEN FirstOccurrences(ls, k + 1)
    ELSE <<ls[k]>> \o FirstOccurrences(ls, k + 1)

AllOptionLines == \A i \in 1..Len(line_specs) : line_specs[i].kind = "opt"
SomeOptionLine == \E i \in 1..Len(line_specs) : line_specs[i].kind = "opt"

ExampleLines ==
    << OptLine(0, S_o, TRUE, L_output, A_FILE, D_output),
       OptLine(0, S_v, TRUE, L_verbose, <<>>, D_verbose) >>

ExampleModel ==
    << [short |-> S_o, long |-> L_output, arg_name |-> A_FILE,
        description |-> D_output, requires_value |-> TRUE],
       [short |-> S_v, long |-> L_verbose, arg_name |-> None,
        description |-> D_verbose, requires_value |-> FALSE] >>

\* C1: for a help text made of aligned option lines, _parse_help_text returns
\* exactly one descriptor per distinct option, in order of first appearance,
\* and requires_value is true exactly when the line carries an uppercase
\* placeholder between the flag and the description; the two lines
\* "-o, --output FILE   Output path" and "-v, --verbose   Enable verbose mode"
\* give (-o, --output, FILE, true) and (-v, --verbose, no argument, false).
OneDescriptorPerOptionLine ==
    (parsed /\ AllOptionLines) =>
        LET first == FirstOccurrences(line_specs, 1)
        IN  /\ Len(options) = Len(first)
            /\ \A i \in 1..Len(first) :
                  /\ LineMakes(first[i], options[i])
                  /\ FlagToken(options[i]) = LineFlag(first[i])
                  /\ options[i].requires_value = (LinePlaceholder(first[i]) # None)
                  /\ options[i].arg_name = LinePlaceholder(first[i])
            /\ (line_specs = ExampleLines => options = ExampleModel)

\* the two example lines have been parsed
OneDescriptorWitness ==
    /\ parsed
    /\ line_specs = ExampleLines
    /\ Len(options) = 2

DescriptorKey(d) == <<OrEmpty(d.short), OrEmpty(d.long)>>

\* C5: the list returned by _parse_help_text never holds two descriptors with
\* the same (short, long) pair, and when several lines give the same pair the
\* descriptor kept has the argument name and description of the first of them.
NoDuplicateDescriptors ==
    parsed =>
        /\ \A i, j \in 1..Len(options) :
              i # j => DescriptorKey(options[i]) # DescriptorKey(options[j])
        /\ AllOptionLines =>
              \A i \in 1..Len(options) :
                 \E k \in 1..Len(line_specs) :
                    /\ LineMakes(line_specs[k], options[i])
                    /\ \A j \in 1..(k - 1) : ~LineMakes(line_specs[j], options[i])
                    /\ options[i].arg_name = LinePlaceholder(line_specs[k])
                    /\ options[i].description = LineDescription(line_specs[k])

\* two lines of the same option, with different placeholder and description,
\* have been parsed into one descriptor
NoDuplicateWitness ==
    /\ parsed
    /\ line_specs = << OptLine(0, S_o, TRUE, L_output, <<>>, D_other),
                       OptLine(0, S_o, TRUE, L_output, A_FILE, D_output) >>
    /\ Len(options) = 1
    /\ options[1].description = D_other

\* the bracket tokens the text was written with, in text order
RECURSIVE AllTokens(_)
AllTokens(ls) ==
    IF ls = <<>> THEN <<>> ELSE Head(ls).tokens \o AllTokens(Tail(ls))

\* a bracket token that is a bundle of flags: trimmed, it starts with "-",
\* holds no space and is longer than 2 characters
IsBundle(tok) ==
    LET t == StrStrip(tok)
    IN  Len(t) > 2 /\ t[1] = "-" /\ ~HasChar(t, " ")

\* the characters after the leading dash
BundleChars(tok) == Tail(StrStrip(tok))

\* a bracket token that is a flag followed by further words
IsFlagWithWords(tok) ==
    LET w == SplitWords(tok)
    IN  Len(w) >= 2 /\ w[1][1] = "-"

\* the short forms a reader expects a bracket token to give
TokenShorts(tok) ==
    LET w == SplitWords(tok)
    IN  IF w = <<>> \/ w[1][1] # "-" THEN {}
        ELSE IF IsBundle(tok)
        THEN { <<"-", BundleChars(tok)[k]>> : k \in 1..Len(BundleChars(tok)) }
        ELSE { w[1] }

\* the short form sh is given by a token before the n-th
GivenEarlier(toks, n, sh) == \E m \in 1..(n - 1) : sh \in TokenShorts(toks[m])

BooleanFlag(sh) ==
    [short |-> sh, long |-> None, arg_name |-> None,
     description |-> OptionFlagText, requires_value |-> FALSE]

IndexOfShort(sh) == CHOOSE i \in 1..Len(options) : options[i].short = sh

\* C6 as stated: in fallback mode every character c after the dash of a
\* packed bracket token has its boolean descriptor (-c, no long form, no
\* argument, "Option flag") in the model.
PackedBundleEveryCharacter ==
    (parsed /\ ~SomeOptionLine) =>
        LET toks == AllTokens(line_specs)
        IN  \A n \in 1..Len(toks) :
               IsBundle(toks[n]) =>
                  \A sh \in TokenShorts(toks[n]) :
                     \E i \in 1..Len(options) : options[i] = BooleanFlag(sh)

\* C6, amended: in fallback mode every character c after the dash of a packed
\* bracket token has exactly one descriptor with short form -c; it is the
\* boolean descriptor (-c, no long form, no argument, "Option flag") unless an
\* earlier bracket token already gave -c; the descriptors a bundle adds are in
\* the order in which its characters first occur; a usage synopsis with [-abc] alone gives
\* exactly -a, -b, -c.
PackedBundleFirstSeen ==
    (parsed /\ ~SomeOptionLine) =>
        LET toks == AllTokens(line_specs)
        IN  /\ \A n \in 1..Len(toks) :
                  IsBundle(toks[n]) =>
                     LET w == BundleChars(toks[n])
                     IN  /\ \A k \in 1..Len(w) :
                               LET sh == <<"-", w[k]>>
                               IN  /\ Cardinality({i \in 1..Len(options) :
                                                     options[i].short = sh}) = 1
                                   /\ ~GivenEarlier(toks, n, sh) =>
                                         options[IndexOfShort(sh)] = BooleanFlag(sh)
                         /\ \A k1, k2 \in 1..Len(w) :
                               ( /\ k1 < k2
                                 /\ \A j \in 1..(k2 - 1) : w[j] # w[k2]
                                 /\ ~GivenEarlier(toks, n, <<"-", w[k1]>>)
                                 /\ ~GivenEarlier(toks, n, <<"-", w[k2]>>) )
                               => IndexOfShort(<<"-", w[k1]>>)
                                    < IndexOfShort(<<"-", w[k2]>>)
            /\ line_specs = << RawLine(P_usage, <<T_abc>>) >> =>
                  options = << BooleanFlag(<<"-", "a">>), BooleanFlag(<<"-", "b">>),
                               BooleanFlag(<<"-", "c">>) >>

\* [-a FILE] came before the bundle [-abc]: -a keeps its argument, the bundle
\* adds -b and -c
PackedBundleWitness ==
    /\ parsed
    /\ line_specs = << RawLine(<<>>, <<T_afile, T_login>>), RawLine(P_usage, <<T_abc>>) >>
    /\ Len(options) = 4
    /\ options[1].arg_name = A_FILE
    /\ options[4] = BooleanFlag(<<"-", "c">>)

\* C7 as stated: in fallback mode a bracket token made of a first word
\* starting with "-" and further words has exactly one descriptor, with the
\* first word as short form, the second word as argument name and
\* requires_value true.
FlagWithArgumentEveryToken ==
    (parsed /\ ~SomeOptionLine) =>
        LET toks == AllTokens(line_specs)
        IN  \A n \in 1..Len(toks) :
               IsFlagWithWords(toks[n]) =>
                  LET w == SplitWords(toks[n])
                  IN  /\ Cardinality({i \in 1..Len(options) :
                                        options[i].short = w[1]}) = 1
                      /\ options[IndexOfShort(w[1])].arg_name = w[2]
                      /\ options[IndexOfShort(w[1])].requires_value

\* C7, amended: in fallback mode a bracket token that holds a space and is made
\* of a first word starting with "-" and further words has exactly one
\* descriptor with the first word as short form; unless an earlier bracket
\* token already gave that short form, its argument name is the second word,
\* requires_value is true and it has no long form; the text "[--name NAME]"
\* gives one descriptor with short form "--name" and argument name "NAME".
FlagWithArgumentFirstSeen ==
    (parsed /\ ~SomeOptionLine) =>
        LET toks == AllTokens(line_specs)
        IN  /\ \A n \in 1..Len(toks) :
                  (IsFlagWithWords(toks[n]) /\ HasChar(StrStrip(toks[n]), " ")) =>
                     LET w == SplitWords(toks[n])
                     IN  /\ Cardinality({i \in 1..Len(options) :
                                           options[i].short = w[1]}) = 1
                         /\ ~GivenEarlier(toks, n, w[1]) =>
                               /\ options[IndexOfShort(w[1])].arg_name = w[2]
                               /\ options[IndexOfShort(w[1])].requires_value
                               /\ options[IndexOfShort(w[1])].long = None
            /\ line_specs = << RawLine(<<>>, <<T_name>>) >> =>
                  /\ Len(options) = 1
                  /\ options[1].short = L_name
                  /\ options[1].arg_name = A_NAME
                  /\ options[1].requires_value

\* the bundle [-abc] came before [-a FILE]: -a stays boolean, -l takes its
\* argument name
FlagWithArgumentWitness ==
    /\ parsed
    /\ line_specs = << RawLine(P_usage, <<T_abc>>), RawLine(<<>>, <<T_afile, T_login>>) >>
    /\ Len(options) = 4
    /\ options[1] = BooleanFlag(<<"-", "a">>)
    /\ options[4].short = <<"-", "l">>
    /\ options[4].arg_name = <<"l", "o", "g", "i", "n">>

\* C8: the fallback pass runs iff the primary pass found no descriptor: a text
\* with an option line gives descriptors of option lines only (its bracket
\* tokens add nothing), and a text without one gives descriptors of bracket
\* tokens only, one for every flag the tokens hold.
PassesAreExclusive ==
    parsed =>
        LET toks   == AllTokens(line_specs)
            shorts == UNION { TokenShorts(toks[n]) : n \in 1..Len(toks) }
        IN  /\ SomeOptionLine =>
                  \A i \in 1..Len(options) :
                     \E k \in 1..Len(line_specs) :
                        /\ line_specs[k].kind = "opt"
                        /\ LineMakes(line_specs[k], options[i])
            /\ ~SomeOptionLine =>
                  /\ \A i \in 1..Len(options) :
                        options[i].long = None /\ options[i].short \in shorts
                  /\ \A sh \in shorts :
                        \E i \in 1..Len(options) : options[i].short = sh

\* an option line and a usage line with a bundle were parsed: one descriptor
PassesAreExclusiveWitness ==
    /\ parsed
    /\ line_specs = << RawLine(P_usage, <<T_abc>>),
                       OptLine(0, S_v, TRUE, L_verbose, <<>>, D_verbose) >>
    /\ Len(options) = 1
    /\ options[1].long = L_verbose

-----------------------------------------------------------------------------
(* The assembler session                                                    *)

\* the 1-based index an answer names, 0 when it names none
TypedIndex(a) ==
    IF a = I_0 THEN 0 ELSE IF a = I_1 THEN 1 ELSE IF a = I_2 THEN 2 ELSE IF a = I_3 THEN 3 ELSE 0

\* the token of an option: its long form if it has one, else its short form
TokenOf(opt) == IF opt.long # None THEN opt.long ELSE opt.short

NavigationAnswers == ExitAnswers \cup BackAnswers

\* a step that answers the option-number prompt with a valid index
SelectsOption(i) ==
    /\ pc = "SelectOption"
    /\ last_prompt' = "SelectOption"
    /\ i = TypedIndex(last_input')
    /\ i \in 1..Len(options)

\* a step that answers the value prompt with a value
GivesValue ==
    /\ pc = "ValuePrompt"
    /\ last_prompt' = "ValuePrompt"
    /\ last_input' \notin NavigationAnswers

AppendRuleStep ==
    /\ \A i \in 1..3 :
          SelectsOption(i) =>
             IF options[i].requires_value
             THEN command' = command /\ pc' = "ValuePrompt" /\ opt_idx' = i
             ELSE command' = Append(command, TokenOf(options[i]))
    /\ GivesValue =>
          command' = command \o <<TokenOf(options[opt_idx]), last_input'>>

ScenarioDraft == <<ProgTool, L_output, I_outtxt, L_verbose>>

\* C2: every successful add-option step with a valid index i extends the draft
\* by the long form of option i if it has one, else its short form, followed
\* by the typed value iff the option requires a value, and by nothing else;
\* with the model [(-o,--output,FILE), (-v,--verbose)] and the program name
\* "tool" the inputs add option, 1, out.txt, add option, 2, finish leave the
\* draft ["tool", "--output", "out.txt", "--verbose"].
AppendRule ==
    [][ /\ AppendRuleStep
        /\ (script' = Len(ScenarioInputs) /\ options' = ExampleModel)
              => command' = ScenarioDraft ]_vars

AppendRuleWitness ==
    /\ script = Len(ScenarioInputs)
    /\ options = ExampleModel
    /\ command = ScenarioDraft
    /\ pc = "ConfirmRun"

BackAtValuePromptStep ==
    /\ (pc = "SelectOption" /\ pc' = "ValuePrompt") => command' = command
    /\ ( /\ pc = "ValuePrompt"
         /\ last_prompt' = "ValuePrompt"
         /\ last_input' \in BackAnswers )
       => ( /\ command' = command
            /\ pc' = "ChoosingAction"
            /\ outcome' = outcome
            /\ outcome' = "Running" )

\* C4: when an option that requires a value has been selected and the value
\* prompt is answered with a Back input, the assembler is back at the action
\* choice with the draft as it was before the option was selected, and the
\* assembly is not aborted.
BackAtValuePrompt == [][BackAtValuePromptStep]_vars

\* " Back " typed at the value prompt after a token was added
BackAtValuePromptWitness ==
    /\ last_prompt = "ValuePrompt"
    /\ last_input = I_Back
    /\ pc = "ChoosingAction"
    /\ Len(command) > 1
    /\ outcome = "Running"

\* a step that answers the option-number prompt with something that is neither
\* a navigation word nor the index of an option
SelectsNothing ==
    /\ pc = "SelectOption"
    /\ last_prompt' = "SelectOption"
    /\ last_input' \notin NavigationAnswers
    /\ TypedIndex(last_input') \notin 1..Len(options)

\* C11: in the add-option step an answer that is a number outside
\* [1, number of options] or not a number (and not a navigation word) leaves
\* the draft unchanged, returns to the action choice, raises no navigation
\* signal and does not end the assembly, also when there is no option.
InvalidSelectionHarmless ==
    [][SelectsNothing =>
          /\ command' = command
          /\ pc' = "ChoosingAction"
          /\ outcome' = "Running"
          /\ popen_calls' = popen_calls]_vars

\* "0" typed at the option prompt of an empty option model, after a positional
\* argument was added
InvalidSelectionWitness ==
    /\ options = <<>>
    /\ last_prompt = "SelectOption"
    /\ last_input = I_0
    /\ pc = "ChoosingAction"
    /\ Len(command) > 1
    /\ outcome = "Running"

\* an option line with a short flag and no long flag
IsShortOnlyLine(l) == l.kind = "opt" /\ l.short # <<>> /\ l.long = <<>>

\* C12: a help line that matches only the third pattern (a short flag with no
\* long flag) gives a descriptor whose short form is that flag and whose long
\* form is absent.
ShortOnlyLineShortForm ==
    parsed =>
        \A k \in 1..Len(line_specs) :
            IsShortOnlyLine(line_specs[k]) =>
                \E i \in 1..Len(options) :
                    /\ options[i].short = line_specs[k].short
                    /\ options[i].long = None

\* a string of the model: a sequence of characters
IsText(x) == DOMAIN x = 1..Len(x)

IsOptionalText(x) == x = None \/ IsText(x)

\* a descriptor as add_option builds it
IsDescriptor(d) ==
    /\ DOMAIN d = {"short", "long", "arg_name", "description", "requires_value"}
    /\ IsOptionalText(d.short)
    /\ IsOptionalText(d.long)
    /\ IsOptionalText(d.arg_name)
    /\ IsText(d.description)
    /\ d.requires_value \in BOOLEAN

\* a line that is neither an option line nor holds a well-formed bracket token
IsBarrenLine(l) ==
    l.kind = "raw" /\ \A n \in 1..Len(l.tokens) : StrStrip(l.tokens[n]) = <<>>

\* C17: for every help text, the empty text, text without option line and
\* bracket token and text with malformed bracket tokens included,
\* _parse_help_text returns a list of descriptors; the empty text and the
\* texts without option line and well-formed bracket token give the empty
\* model.
ExtractorTotal ==
    parsed =>
        /\ DOMAIN options = 1..Len(options)
        /\ \A i \in 1..Len(options) : IsDescriptor(options[i])
        /\ help_text = <<>> => options = <<>>
        /\ (\A k \in 1..Len(line_specs) : IsBarrenLine(line_specs[k]))
              => options = <<>>

\* "[ ]" followed by the unclosed "[-z" has been parsed
ExtractorTotalWitness ==
    /\ parsed
    /\ line_specs = << RawLine(<<>>, <<T_blank>>), UnclosedLine >>
    /\ options = <<>>

IsPresent(x) == x # None /\ x # <<>>

\* C18: every descriptor returned by _parse_help_text, from either pass, has
\* its short form or its long form present, so the token the assembler
\* appends for it is never absent.
DescriptorHasForm ==
    parsed =>
        \A i \in 1..Len(options) :
            /\ IsPresent(options[i].short) \/ IsPresent(options[i].long)
            /\ IsPresent(FlagToken(options[i]))

\* a short-only line and a long-only line have been parsed
DescriptorHasFormWitness ==
    /\ parsed
    /\ line_specs = << OptLine(0, S_x, FALSE, <<>>, <<>>, D_extra),
                       OptLine(2, <<>>, FALSE, L_name, A_NAME, D_name) >>
    /\ Len(options) = 2


-----------------------------------------------------------------------------
(* The session around the assembler: the run of the command, the prompts    *)
(* with choices, and the session whose input is piped                        *)

\* a step in which the command of the draft was run to completion
RunCompleted ==
    /\ pc = "ConfirmRun"
    /\ pc' = "Done"
    /\ Len(popen_calls') = Len(popen_calls) + 1
    /\ returncode' \in ReturnCodes

\* the tokens joined by single blanks
JoinedBySpaces(toks) == Join(toks, <<" ">>)

\* C13: whenever the assembler finishes and the command is run to completion,
\* exactly one pair (the tokens joined into one string, the outcome) is
\* appended to command_history, the outcome being "success" iff the exit
\* status is zero and "error" otherwise
HistoryAfterExecution ==
    [][RunCompleted =>
          command_history' =
             Append(command_history,
                    <<JoinedBySpaces(command),
                      IF returncode' = 0 THEN "success" ELSE "error">>)]_vars

\* a step that answers the prompt shown with one of b, back, q, quit, exit
AnswersNavigation ==
    /\ last_prompt' = pc
    /\ last_input' \in NavigationAnswers

\* the answer is taken as a signal: Exit ends the session without a run, Back
\* leaves the prompt; the draft is left as it was
TakenAsSignal ==
    /\ command' = command
    /\ popen_calls' = popen_calls
    /\ IF last_input' \in ExitAnswers
       THEN pc' = "Done" /\ outcome' = "Aborted"
       ELSE pc' # pc

\* C16: at every prompt of a magnet session each of b, back, q, quit, exit,
\* in any letter case, is treated as a navigation signal, never as data and
\* never as an invalid answer
EveryPromptClassifies == [][AnswersNavigation => TakenAsSignal]_vars

\* C20: when standard input is not a terminal the builder writes the template
\* for the parsed option model and returns: the assembler is never entered,
\* no prompt is read and no command is run (a write the file system refuses
\* is reported and leaves no template)
PipedEmitsTemplate ==
    ~isatty =>
       /\ pc \in {"Builder", "Done"}
       /\ command = <<>>
       /\ last_prompt = "Idle" /\ last_input = None
       /\ popen_calls = <<>> /\ returncode = NoProcess
       /\ pc = "Done" =>
             IF outcome = "Crashed" THEN template = NoTemplate
             ELSE /\ outcome = "Template"
                  /\ template # NoTemplate
                  /\ template.command_name = command_name
                  /\ template.options = options

PipedEmitsTemplateWitness ==
    /\ ~isatty
    /\ pc = "Done"
    /\ command_name = ProgMixed
    /\ Len(options) = 3
    /\ template # NoTemplate
    /\ template.options = options


-----------------------------------------------------------------------------
(* The constructor alone: MagnetUI.__init__ on every combination of a given *)
(* text and of the results of the two help invocations                      *)

F_h == <<"-","h">>
F_help == <<"-","-","h","e","l","p">>

\* what a program prints on its standard output and on its standard error
HelpStdouts ==
    { <<>>,
      TextOf(<< OptLine(0, S_o, TRUE, L_output, A_FILE, D_output),
                OptLine(0, S_v, TRUE, L_verbose, <<>>, D_verbose) >>),
      TextOf(<< OptLine(0, S_x, FALSE, <<>>, <<>>, D_extra) >>) }
HelpStderrs ==
    { <<>>, TextOf(<< RawLine(P_usage, <<T_abc>>) >>) }

\* subprocess.run(..., capture_output=True, text=True): a CompletedProcess,
\* or an exception when the program cannot be started
RunResults ==
    [raises : {FALSE}, returncode : ReturnCodes, stdout : HelpStdouts,
     stderr : HelpStderrs] \cup {Raised}

\* the help_text arguments of the model
ProvidedTexts ==
    { None, <<>>,
      TextOf(<< OptLine(2, <<>>, FALSE, L_name, A_NAME, D_name) >>) }

\* a help output of which only the standard output is read
HelpOutputStdoutOnly(result) == result.stdout

\* result.stdout or result.stderr
HelpOutput(result) ==
    IF result.stdout # <<>> THEN result.stdout ELSE result.stderr

\* `not help_text`
IsFalsy(text) == text = None \/ text = <<>>

\* the try block of __init__: -h is run, --help is run when -h exits
\* non-zero, and an exception from either run gives the empty text
FetchHelp ==
    IF run_h.raises
    THEN [text |-> <<>>, flags |-> <<F_h>>]
    ELSE IF run_h.returncode # 0
         THEN IF run_help.raises
              THEN [text |-> <<>>, flags |-> <<F_h, F_help>>]
              ELSE [text |-> HelpOutput(run_help), flags |-> <<F_h, F_help>>]
         ELSE [text |-> HelpOutput(run_h), flags |-> <<F_h>>]

InitFetch ==
    /\ provided \in ProvidedTexts
    /\ run_h \in RunResults
    /\ run_help \in RunResults
    /\ invoked = <<>>
    /\ ParseIdle
    /\ NavIdle
    /\ BrowserIdle
    /\ MenuIdle
    /\ BuildIdle

\* MagnetUI(command_name, help_text) with a text: it is used as it is
ConstructWithText ==
    /\ ~parsed
    /\ ~IsFalsy(provided)
    /\ help_text' = provided
    /\ options' = ParseHelpText(provided)
    /\ parsed' = TRUE
    /\ UNCHANGED <<line_specs, navVars, buildVars, browserVars, fetchVars, menuVars>>

\* MagnetUI(command_name) without a text: the program is asked for its help
ConstructFetching ==
    /\ ~parsed
    /\ IsFalsy(provided)
    /\ help_text' = FetchHelp.text
    /\ invoked' = FetchHelp.flags
    /\ options' = ParseHelpText(FetchHelp.text)
    /\ parsed' = TRUE
    /\ UNCHANGED <<line_specs, navVars, buildVars, browserVars, provided, run_h, run_help,
                   menuVars>>

NextFetch == ConstructWithText \/ ConstructFetching

SpecFetch == InitFetch /\ [][NextFetch]_vars

-----------------------------------------------------------------------------
(* Properties of the constructor (SpecFetch)                                *)

\* the constructor has run without a text
Fetched == parsed /\ provided = None

\* C19 as stated: without a provided text the help text is the standard
\* output of the invocation with a help flag, and the standard error instead
\* if the first invocation's exit status is non-zero
HelpTextByExitStatus ==
    (Fetched /\ ~run_h.raises) =>
       help_text = IF run_h.returncode # 0 THEN run_h.stderr ELSE run_h.stdout

\* the run whose output the constructor reads: the last one made
LastRun == IF Len(invoked) = 2 THEN run_help ELSE run_h

\* C19: without a provided text (None or empty) the program is run with -h
\* and, if that run exits non-zero, again with --help; the help text is the
\* standard output of the last run made, or its standard error if that
\* output is empty, and the empty text if a run could not be started; a
\* provided non-empty text is used as it is and nothing is run
HelpTextFromLastRun ==
    parsed =>
       IF provided # None /\ provided # <<>>
       THEN help_text = provided /\ invoked = <<>>
       ELSE /\ invoked = IF ~run_h.raises /\ run_h.returncode # 0
                         THEN <<F_h, F_help>> ELSE <<F_h>>
            /\ IF LastRun.raises THEN help_text = <<>>
               ELSE IF LastRun.stdout # <<>> THEN help_text = LastRun.stdout
               ELSE help_text = LastRun.stderr

\* -h fails with a usage message on standard error, --help prints the help
HelpTextWitness ==
    /\ Fetched
    /\ ~run_h.raises /\ run_h.returncode = 1 /\ run_h.stderr # <<>>
    /\ ~run_help.raises /\ run_help.returncode = 0
    /\ help_text = run_help.stdout
    /\ Len(options) = 2


-----------------------------------------------------------------------------
(* The main menu: MainUI.run, and below it run_magnet, PDFToolsUI.main_menu *)
(* and FFmpegUI.run                                                         *)

I_4 == <<"4">>
I_5 == <<"5">>
I_6 == <<"6">>
I_7 == <<"7">>
I_8 == <<"8">>
I_9 == <<"9">>
I_12 == <<"1",",","2">>
I_pdf == <<"a",".","p","d","f">>
I_range == <<"x",".","p","d","f"," ","1","-","2">>
I_empty == <<>>

\* the keys of MainUI.tools and of the PDF menu
MainChoices == {I_1, I_2, I_3, I_q}
PdfChoices == {I_1, I_2, I_3, I_4, I_5, I_6, I_7, I_8, I_9}

\* the answers tried below the main menu
WrapAnswers == {ProgTool, I_empty, I_b, I_Back, I_q, I_Exit}
ToolAnswers == {I_1, I_2, I_12, I_pdf, I_b, I_Back, I_q, I_Exit}
RangeAnswers == {I_range, I_pdf, I_empty, I_b, I_Back, I_q, I_Exit}
PauseAnswers == {I_empty, I_q}

\* how many ranges the model lets the user enter
MaxRanges == 1

\* the prompts an operation of the PDF menu asks before it runs its command:
\* extract (output, pages), merge (files, output), compress (output,
\* quality), rotate (output, pages, rotation), page numbers (output,
\* position, start), split (method, pattern)
PdfPrompts(op) ==
    CASE op = I_2 -> 2
      [] op = I_3 -> 2
      [] op = I_4 -> 2
      [] op = I_5 -> 3
      [] op = I_6 -> 3
      [] OTHER    -> 2

\* the prompts of FFmpegUI.run in the order they are asked
FfmpegSteps ==
    << "input", "output", "format", "resolution", "start", "end", "mute",
       "volume", "preview" >>
\* the prompts answered by a number, and the two Confirm.ask prompts
FfmpegNumbers == {"format", "resolution", "volume"}
FfmpegConfirms == {"mute", "preview"}

\* `tool -h` as the main menu's magnet sessions find it
MenuRuns ==
    { [raises |-> FALSE, returncode |-> 0,
       stdout |-> TextOf(<< OptLine(0, S_o, TRUE, L_output, A_FILE, D_output),
                            OptLine(0, S_v, TRUE, L_verbose, <<>>, D_verbose) >>),
       stderr |-> <<>>] }

\* the assembler's variables a step outside the assembler leaves alone
assemblerRest == <<command_name, pc, command, opt_idx, cwd, browse_dir,
                   unreadable, popen_calls, outcome, exit_seen, script,
                   sessVars>>

\* history: the answer and the prompt it was given to
MenuNote(a) ==
    /\ last_input' = a
    /\ last_prompt' = menu_pc

InitMenu ==
    /\ menu_pc = "MainMenu"
    /\ exit_raised = FALSE
    /\ pdf_files \in {0, 1, 2}
    /\ current_pdf = FALSE /\ pdf_op = None /\ step = 0 /\ ranges = <<>>
    /\ provided = None
    /\ run_h \in MenuRuns
    /\ run_help = Raised
    /\ invoked = <<>>
    /\ ParseIdle
    /\ NavIdle
    /\ BrowserIdle
    /\ BuildIdle

\* display_main_menu and the dispatch on the choice: "q" leaves the loop,
\* "1" asks for the program, the others construct the tool and run it;
\* FFmpegUI.run returns at once when ffmpeg is not installed
MainChoose(a, installed) ==
    /\ menu_pc = "MainMenu"
    /\ CASE a = I_q -> menu_pc' = "Ended" /\ UNCHANGED <<current_pdf, step>>
         [] a = I_1 -> menu_pc' = "CliToWrap" /\ UNCHANGED <<current_pdf, step>>
         [] a = I_2 -> IF installed
                       THEN menu_pc' = "Ffmpeg" /\ step' = 1 /\ current_pdf' = current_pdf
                       ELSE UNCHANGED <<menu_pc, current_pdf, step>>
         [] OTHER   -> menu_pc' = "PdfMenu" /\ current_pdf' = FALSE /\ step' = step
    /\ MenuNote(a)
    /\ UNCHANGED <<exit_raised, pdf_files, pdf_op, ranges, assemblerRest,
                   browserVars, parseVars, navVars, fetchVars>>

\* Prompt.ask("CLI to wrap").strip(): Exit leaves the loop, Back and the
\* empty answer show the menu again, a name starts run_magnet, which
\* constructs MagnetUI (the help text is fetched and parsed) and calls
\* interactive_ui_builder
WrapAnswer(a) ==
    /\ menu_pc = "CliToWrap"
    /\ LET name == StrStrip(a)
           action == check_navigation(name)
       IN  IF action = "exit"
           THEN /\ menu_pc' = "Ended" /\ exit_raised' = TRUE
                /\ UNCHANGED <<assemblerRest, browserVars, parseVars, fetchVars>>
           ELSE IF action = "back" \/ name = <<>>
           THEN /\ menu_pc' = "MainMenu" /\ exit_raised' = exit_raised
                /\ UNCHANGED <<assemblerRest, browserVars, parseVars, fetchVars>>
           ELSE /\ menu_pc' = "Magnet" /\ exit_raised' = exit_raised
                /\ command_name' = name
                /\ help_text' = FetchHelp.text
                /\ invoked' = FetchHelp.flags
                /\ options' = ParseHelpText(FetchHelp.text)
                /\ parsed' = TRUE
                /\ pc' = "Builder"
                /\ command' = <<>> /\ opt_idx' = 0
                /\ browse_dir' = cwd
                /\ unreadable' = {SubDir}
                /\ popen_calls' = <<>> /\ outcome' = "Running"
                /\ exit_seen' = FALSE /\ script' = 0
                /\ command_history' = <<>> /\ returncode' = NoProcess
                /\ isatty' = TRUE /\ template' = NoTemplate
                /\ UNCHANGED <<cwd, line_specs, provided, run_h, run_help,
                               browserVars>>
    /\ MenuNote(a)
    /\ UNCHANGED <<pdf_files, current_pdf, pdf_op, step, ranges, navVars>>

\* a step of the magnet session the main menu started
MagnetStep ==
    /\ menu_pc = "Magnet"
    /\ Next

\* run_magnet returns, through `except NavigationAction` or normally, and
\* the loop of MainUI.run shows the menu again; the MagnetUI object is gone
MagnetReturns ==
    /\ menu_pc = "Magnet"
    /\ pc = "Done"
    /\ menu_pc' = "MainMenu"
    /\ exit_raised' = (exit_raised \/ (outcome = "Aborted"
                                       /\ check_navigation(last_input) = "exit"))
    /\ help_text' = <<>> /\ options' = <<>> /\ parsed' = FALSE
    /\ invoked' = <<>>
    /\ pc' = "Idle"
    /\ command' = <<>> /\ opt_idx' = 0
    /\ browse_dir' = cwd
    /\ unreadable' = {}
    /\ popen_calls' = <<>> /\ outcome' = "Running"
    /\ exit_seen' = FALSE /\ script' = 0
    /\ command_history' = <<>> /\ returncode' = NoProcess
    /\ isatty' = TRUE /\ template' = NoTemplate
    /\ UNCHANGED <<command_name, cwd, last_input, last_prompt, line_specs,
                   provided, run_h, run_help, pdf_files, current_pdf, pdf_op,
                   step, ranges, navVars, browserVars>>

\* a handler that leaves the PDF menu on Back as on Exit
PdfCatchBackLeaves(action) == "MainMenu"

\* `except NavigationAction as nav` of main_menu: Exit breaks the loop, and
\* main_menu returns into the loop of MainUI.run; Back goes round the loop
PdfCatch(action) == IF action = "exit" THEN "MainMenu" ELSE "PdfMenu"

\* the most commands the model lets one PDFToolsUI run
MaxHistory == 1

\* main_menu returns: the PDFToolsUI object and its history are dropped
PdfToolEnds ==
    /\ command_history' = <<>>
    /\ returncode' = NoProcess

\* a NavigationAction raised below main_menu
PdfRaise(action) ==
    /\ menu_pc' = PdfCatch(action)
    /\ exit_raised' = (exit_raised \/ action = "exit")
    /\ pdf_op' = None /\ step' = 0 /\ ranges' = <<>>
    /\ current_pdf' = current_pdf
    /\ IF action = "exit" THEN PdfToolEnds
       ELSE UNCHANGED <<command_history, returncode>>

\* what a step of the PDF tool leaves alone
outsidePdf == <<pdf_files, command_name, pc, command, opt_idx, cwd, browse_dir,
               unreadable, popen_calls, outcome, exit_seen, script, isatty,
               template, parseVars, navVars, fetchVars, browserVars>>

\* a dispatch that starts an operation without looking at current_pdf
PdfChooseSkipsSelection(c) ==
    /\ menu_pc = "PdfMenu"
    /\ IF c = I_9 THEN PdfToolEnds ELSE UNCHANGED <<command_history, returncode>>
    /\ IF c = I_9 THEN menu_pc' = "MainMenu" /\ UNCHANGED <<pdf_op, step>>
       ELSE IF c = I_1
       THEN IF pdf_files > 0
            THEN menu_pc' = "PdfBrowse" /\ pdf_op' = c /\ step' = 0
            ELSE UNCHANGED <<menu_pc, pdf_op, step>>
       ELSE IF c = I_8 \/ (c = I_3 /\ pdf_files < 2)
       THEN menu_pc' = "PdfPause" /\ UNCHANGED <<pdf_op, step>>
       ELSE menu_pc' = "PdfOp" /\ pdf_op' = c /\ step' = 1
    /\ MenuNote(c)
    /\ UNCHANGED <<exit_raised, current_pdf, ranges, outsidePdf>>

\* display_menu(choices) and the dispatch: "9" leaves the loop; an operation
\* on the current file first asks for one; select_file opens the browser
\* when the directory holds PDF files; merge needs two files; the history
\* view asks nothing
PdfChoose(c) ==
    /\ menu_pc = "PdfMenu"
    /\ IF c = I_9 THEN PdfToolEnds ELSE UNCHANGED <<command_history, returncode>>
    /\ IF c = I_9 THEN menu_pc' = "MainMenu" /\ UNCHANGED <<pdf_op, step>>
       ELSE IF c = I_1 \/ (c \notin {I_3, I_8} /\ ~current_pdf)
       THEN IF pdf_files > 0
            THEN menu_pc' = "PdfBrowse" /\ pdf_op' = c /\ step' = 0
            ELSE UNCHANGED <<menu_pc, pdf_op, step>>
       ELSE IF c = I_8 \/ (c = I_3 /\ pdf_files < 2)
       THEN menu_pc' = "PdfPause" /\ UNCHANGED <<pdf_op, step>>
       ELSE menu_pc' = "PdfOp" /\ pdf_op' = c /\ step' = 1
    /\ MenuNote(c)
    /\ UNCHANGED <<exit_raised, current_pdf, ranges, outsidePdf>>

\* browse_files under select_file: Exit raises, Back returns None and
\* select_file raises Back, a file becomes current_pdf, another name is an
\* invalid selection
PdfBrowseAnswer(a) ==
    /\ menu_pc = "PdfBrowse"
    /\ LET action == check_navigation(a)
       IN  IF action # NoAction THEN PdfRaise(action)
           ELSE IF a = I_pdf
           THEN /\ current_pdf' = TRUE
                /\ IF pdf_op = I_1
                   THEN menu_pc' = "PdfMenu" /\ pdf_op' = None /\ step' = 0
                   ELSE menu_pc' = "PdfOp" /\ pdf_op' = pdf_op /\ step' = 1
                /\ UNCHANGED <<exit_raised, ranges, command_history, returncode>>
           ELSE UNCHANGED <<menu_pc, exit_raised, current_pdf, pdf_op, step,
                            ranges, command_history, returncode>>
    /\ MenuNote(a)
    /\ UNCHANGED outsidePdf

\* the split method prompt has choices 1, 2, b, q: rich asks again for any
\* other answer
SplitMethodAccepts(a) == a \in {I_1, I_2, I_b, I_q}

\* a prompt of an operation, followed by raise_if_navigation or by
\* check_navigation and raise: a signal is raised to main_menu, a value
\* leads to the next prompt and after the last one to execute_command;
\* merge returns when fewer than two files are named, split by ranges goes
\* on to its own loop
PdfOpAnswer(a) ==
    /\ menu_pc = "PdfOp"
    /\ LET action == check_navigation(a)
       IN  IF pdf_op = I_7 /\ step = 1 /\ ~SplitMethodAccepts(a)
           THEN UNCHANGED <<menu_pc, exit_raised, current_pdf, pdf_op, step,
                            ranges, command_history, returncode>>
           ELSE IF action # NoAction THEN PdfRaise(action)
           ELSE /\ UNCHANGED <<exit_raised, current_pdf, pdf_op, ranges,
                               command_history, returncode>>
                /\ IF pdf_op = I_3 /\ step = 1 /\ a # I_12
                   THEN menu_pc' = "PdfPause" /\ step' = 0
                   ELSE IF pdf_op = I_7 /\ step = 1 /\ a = I_2
                   THEN menu_pc' = "PdfRanges" /\ step' = 0
                   ELSE IF step < PdfPrompts(pdf_op)
                   THEN menu_pc' = "PdfOp" /\ step' = step + 1
                   ELSE menu_pc' = "PdfConfirm" /\ step' = 0
    /\ MenuNote(a)
    /\ UNCHANGED outsidePdf

\* page_range.split(" ", 1) raises ValueError for a range without a blank:
\* it is reported as invalid and no command is built for it
Runnable(rs) == SelectSeq(rs, LAMBDA r : HasChar(r, " "))

\* the loop of split_pdf_menu: Exit raises, Back and the empty line end the
\* loop, another line is collected; after the loop no range means return,
\* and the ranges are executed one after the other (from then on `ranges`
\* holds the ranges whose command is still to be shown)
PdfRangeAnswer(a) ==
    /\ menu_pc = "PdfRanges"
    /\ LET action == check_navigation(a)
       IN  IF action = "exit" THEN PdfRaise("exit")
           ELSE IF action = "back" \/ a = <<>>
           THEN /\ menu_pc' = IF Runnable(ranges) # <<>>
                              THEN "PdfConfirm" ELSE "PdfPause"
                /\ ranges' = Runnable(ranges)
                /\ UNCHANGED <<exit_raised, current_pdf, pdf_op, step,
                               command_history, returncode>>
           ELSE /\ Len(ranges) < MaxRanges
                /\ ranges' = Append(ranges, a)
                /\ UNCHANGED <<menu_pc, exit_raised, current_pdf, pdf_op, step,
                               command_history, returncode>>
    /\ MenuNote(a)
    /\ UNCHANGED outsidePdf

\* execute_command with a failed run taken for a navigation signal
PdfConfirmAnswerFailureLeaves(yes, rc) ==
    /\ menu_pc = "PdfConfirm"
    /\ IF yes
       THEN /\ Len(command_history) < MaxHistory
            /\ returncode' = rc
            /\ command_history' =
                  Append(command_history,
                         <<pdf_op, IF rc = 0 THEN "success" ELSE "error">>)
       ELSE UNCHANGED <<command_history, returncode>>
    /\ IF yes /\ rc # 0
       THEN menu_pc' = "PdfMenu" /\ ranges' = <<>>
       ELSE IF Len(ranges) > 1
       THEN menu_pc' = "PdfConfirm" /\ ranges' = Tail(ranges)
       ELSE menu_pc' = "PdfPause" /\ ranges' = <<>>
    /\ MenuNote(IF yes THEN I_yes ELSE I_no)
    /\ UNCHANGED <<exit_raised, current_pdf, pdf_op, step, outsidePdf>>

\* execute_command: Confirm.ask("Run this command?") and, on yes, the run
\* under a shell, recorded in the history of the PDF tool as (command,
\* "success") for status 0 and (command, "error") otherwise (the command
\* is written as the key of the operation that built it); then split by
\* ranges shows the command of its next range, any other operation returns
\* to main_menu, which pauses
PdfConfirmAnswer(yes, rc) ==
    /\ menu_pc = "PdfConfirm"
    /\ IF yes
       THEN /\ Len(command_history) < MaxHistory
            /\ returncode' = rc
            /\ command_history' =
                  Append(command_history,
                         <<pdf_op, IF rc = 0 THEN "success" ELSE "error">>)
       ELSE UNCHANGED <<command_history, returncode>>
    /\ IF Len(ranges) > 1
       THEN menu_pc' = "PdfConfirm" /\ ranges' = Tail(ranges)
       ELSE menu_pc' = "PdfPause" /\ ranges' = <<>>
    /\ MenuNote(IF yes THEN I_yes ELSE I_no)
    /\ UNCHANGED <<exit_raised, current_pdf, pdf_op, step, outsidePdf>>

\* Prompt.ask("Press Enter to continue"): the answer is not looked at
PdfPauseAnswer(a) ==
    /\ menu_pc = "PdfPause"
    /\ menu_pc' = "PdfMenu"
    /\ pdf_op' = None
    /\ MenuNote(a)
    /\ UNCHANGED <<exit_raised, current_pdf, step, ranges, command_history,
                   returncode, outsidePdf>>

\* a classified prompt of FFmpegUI.run: every signal ends run, which returns
\* into the loop of MainUI.run; a value leads to the next prompt, a text
\* where a number is asked for (or a name that is no file) asks again
FfmpegAnswer(a) ==
    /\ menu_pc = "Ffmpeg"
    /\ FfmpegSteps[step] \notin FfmpegConfirms
    /\ LET action == check_navigation(a)
           accepted == IF FfmpegSteps[step] \in FfmpegNumbers THEN a = I_1
                       ELSE IF FfmpegSteps[step] = "input" THEN a = I_pdf
                       ELSE TRUE
       IN  IF action # NoAction
           THEN /\ menu_pc' = "MainMenu" /\ step' = 0
                /\ exit_raised' = (exit_raised \/ action = "exit")
           ELSE /\ exit_raised' = exit_raised
                /\ menu_pc' = menu_pc
                /\ step' = IF accepted THEN step + 1 ELSE step
    /\ MenuNote(a)
    /\ UNCHANGED <<pdf_files, current_pdf, pdf_op, ranges, assemblerRest,
                   browserVars, parseVars, navVars, fetchVars>>

\* Confirm.ask("Mute audio?") skips the volume prompt on yes;
\* Confirm.ask("Run this command?") runs the command or not, and run returns
FfmpegConfirm(yes) ==
    /\ menu_pc = "Ffmpeg"
    /\ FfmpegSteps[step] \in FfmpegConfirms
    /\ IF FfmpegSteps[step] = "mute"
       THEN menu_pc' = menu_pc /\ step' = IF yes THEN step + 2 ELSE step + 1
       ELSE menu_pc' = "MainMenu" /\ step' = 0
    /\ MenuNote(IF yes THEN I_yes ELSE I_no)
    /\ UNCHANGED <<exit_raised, pdf_files, current_pdf, pdf_op, ranges,
                   assemblerRest, browserVars, parseVars, navVars, fetchVars>>

NextMenu ==
    \/ \E a \in MainChoices, installed \in BOOLEAN : MainChoose(a, installed)
    \/ \E a \in WrapAnswers : WrapAnswer(a)
    \/ MagnetStep
    \/ MagnetReturns
    \/ \E c \in PdfChoices : PdfChoose(c)
    \/ \E a \in ToolAnswers : PdfBrowseAnswer(a)
    \/ \E a \in ToolAnswers : PdfOpAnswer(a)
    \/ \E a \in RangeAnswers : PdfRangeAnswer(a)
    \/ \E yes \in BOOLEAN, rc \in ReturnCodes : PdfConfirmAnswer(yes, rc)
    \/ \E a \in PauseAnswers : PdfPauseAnswer(a)
    \/ \E a \in ToolAnswers : FfmpegAnswer(a)
    \/ \E yes \in BOOLEAN : FfmpegConfirm(yes)

SpecMenu == InitMenu /\ [][NextMenu]_vars


-----------------------------------------------------------------------------
(* Properties of the main menu (SpecMenu)                                   *)

\* C14: an Exit signal produced at a prompt inside the magnet assembler, a
\* PDF operation or the ffmpeg flow started from the main menu ends every
\* enclosing loop up to the entry point: after it no loop, the main menu
\* loop of MainUI.run included, prompts again
ExitReachesTop == exit_raised => menu_pc = "Ended"

\* a step in which an operation started from the PDF menu raises
\* NavigationAction("back"): a Back answer at the browser of select_file or
\* at a prompt of an operation (the split method prompt hands back only "b")
PdfBackRaised ==
    /\ menu_pc \in {"PdfBrowse", "PdfOp"}
    /\ last_prompt' = menu_pc
    /\ last_input' \in BackAnswers
    /\ (menu_pc = "PdfOp" /\ pdf_op = I_7 /\ step = 1) => last_input' = I_b

\* a step in which Back is answered at the assembler's option-number,
\* option-value or positional-argument prompt
AssemblerBack ==
    /\ menu_pc = "Magnet"
    /\ pc \in {"SelectOption", "ValuePrompt", "PositionalPrompt"}
    /\ last_prompt' = pc
    /\ last_input' \in BackAnswers

\* C15: a NavigationAction("back") raised by an operation started from the
\* PDF menu is caught by the loop of main_menu, which shows its menu and
\* prompts again: main_menu does not return and no Exit is recorded; a Back
\* answer at the assembler's option-number, value or argument prompt returns
\* to the action choice with the draft as it was
BackAbsorbed ==
    [][ /\ PdfBackRaised =>
             /\ menu_pc' = "PdfMenu"
             /\ exit_raised' = exit_raised
             /\ current_pdf' = current_pdf
        /\ AssemblerBack =>
             /\ pc' = "ChoosingAction"
             /\ menu_pc' = "Magnet"
             /\ command' = command
             /\ outcome' = outcome ]_vars

\* Back was typed at a prompt of an operation on the current file
BackAbsorbedWitness ==
    /\ menu_pc = "PdfMenu"
    /\ last_prompt = "PdfOp"
    /\ last_input = I_Back
    /\ current_pdf
    /\ ~exit_raised


-----------------------------------------------------------------------------
(* Properties of the add-positional step and of the draft (Spec)            *)

\* the answers that ask for the file browser
BrowseWords == {I_browse, I_Browse}

\* a step that answers the argument prompt with plain text
GivesArgument ==
    /\ pc = "PositionalPrompt"
    /\ last_prompt' = "PositionalPrompt"
    /\ last_input' \notin NavigationAnswers
    /\ last_input' \notin BrowseWords

PickedFile(dir, a) ==
    IF a \in Files THEN a
    ELSE IF dir \o <<"/">> \o a \in Files THEN dir \o <<"/">> \o a
    ELSE None

\* C24: in the add-positional step "browse" in any letter case opens the file
\* browser and is not appended; a path the browser returns is appended as
\* one token; when the browser ends with Back nothing is appended and the
\* assembler is at the action choice; when it ends with Exit the assembly is
\* aborted and nothing is run
BrowseDelegation ==
    [][ /\ (pc = "PositionalPrompt" /\ last_prompt' = "PositionalPrompt"
            /\ last_input' \in BrowseWords) =>
              pc' = "ArgBrowse" /\ command' = command
        /\ (pc = "ArgBrowse" /\ last_prompt' = "ArgBrowse") =>
              IF last_input' \in ExitAnswers
              THEN /\ pc' = "Done" /\ outcome' = "Aborted"
                   /\ command' = command /\ popen_calls' = popen_calls
              ELSE IF last_input' \in BackAnswers
              THEN pc' = "ChoosingAction" /\ command' = command
              ELSE IF PickedFile(browse_dir, last_input') # None
              THEN /\ pc' = "ChoosingAction"
                   /\ command' = Append(command, PickedFile(browse_dir, last_input'))
              ELSE pc' = "ArgBrowse" /\ command' = command ]_vars

\* the browser returned /w/in.txt for the name typed in /w
BrowseDelegationWitness ==
    /\ pc = "ChoosingAction"
    /\ last_prompt = "ArgBrowse"
    /\ last_input = I_intxt
    /\ command = <<command_name, InFile>>


\* a step that answers the action choice with b or back, in any letter case
BackAtActionChoice ==
    /\ pc = "ChoosingAction"
    /\ last_prompt' = "ChoosingAction"
    /\ last_input' \in BackAnswers

\* s is the beginning of t
IsPrefix(s, t) == Len(s) <= Len(t) /\ SubSeq(t, 1, Len(s)) = s

\* C25: a Back input at the action choice ends the assembly, removes no token
\* and runs nothing, whatever the draft holds; no step of the assembler
\* removes the last token of the draft
BackAtActionChoiceAborts ==
    [][ /\ BackAtActionChoice =>
              /\ pc' = "Done"
              /\ command' = command
              /\ popen_calls' = popen_calls
        /\ pc # "Builder" => IsPrefix(command, command') ]_vars

\* C26: the draft starts as [program name]; every step of the assembler
\* keeps the draft as a prefix of the new draft and the program name as its
\* first token; tokens are added only by the step that ends a loop iteration
\* at the action choice, none, one or two at a time
DraftOnlyGrows ==
    [][ /\ (pc = "Builder" /\ pc' \notin {"Builder", "Done"}) =>
              command' = <<command_name>>
        /\ pc # "Builder" =>
              /\ IsPrefix(command, command')
              /\ Len(command') <= Len(command) + 2
              /\ (pc # "Done" /\ outcome # "Template") => command'[1] = command_name
              /\ command' # command =>
                    pc # "ChoosingAction" /\ pc' = "ChoosingAction" ]_vars

\* the flag and its value were added in one iteration, after an argument
DraftOnlyGrowsWitness ==
    /\ pc = "ChoosingAction"
    /\ last_prompt = "ValuePrompt"
    /\ Len(command) = 4
    /\ command[1] = command_name
    /\ command[4] = last_input

-----------------------------------------------------------------------------
(* Properties of the two passes of the extractor (SpecParse)                *)

\* an option line written with both a short and a long flag
HasBothFlags(l) == l.kind = "opt" /\ l.short # <<>> /\ l.long # <<>>

\* an option line written with one flag only
HasOneFlag(l) == l.kind = "opt" /\ ~HasBothFlags(l)

OptionLineCount ==
    Cardinality({ k \in 1..Len(line_specs) : line_specs[k].kind = "opt" })

\* C27: in the primary pass a line is given to the first of the three
\* patterns (short-and-long, long-only, short-only) that matches it and to no
\* later one: a line adds at most one descriptor, a line with both flags
\* gives a descriptor holding both, and every descriptor with one flag only
\* comes from a line written with that flag only.
FirstPatternWins ==
    (parsed /\ SomeOptionLine) =>
        /\ Len(options) <= OptionLineCount
        /\ \A k \in 1..Len(line_specs) :
              HasBothFlags(line_specs[k]) =>
                 \E i \in 1..Len(options) :
                    /\ options[i].short = line_specs[k].short
                    /\ options[i].long = line_specs[k].long
        /\ \A i \in 1..Len(options) :
              None \in {options[i].short, options[i].long} =>
                 \E k \in 1..Len(line_specs) :
                    /\ HasOneFlag(line_specs[k])
                    /\ LineFlag(line_specs[k])
                          \in {options[i].short, options[i].long}

\* "-u --url   URL to fetch", which the short-only pattern matches as well,
\* was parsed into the descriptor (-u, --url)
FirstPatternWinsWitness ==
    /\ parsed
    /\ line_specs = << OptLine(0, S_u, FALSE, L_url, <<>>, D_url) >>
    /\ Len(options) = 1
    /\ options[1].short = S_u
    /\ options[1].long = L_url

\* a line whose flag is followed directly by its description, the first word
\* of which is not a placeholder or is the only word
NoPlaceholderLine(l) ==
    LET w == SplitWords(l.desc)
    IN  /\ l.kind = "opt"
        /\ l.arg = <<>>
        /\ (Len(w) < 2 \/ ~IsPlaceholderWord(w[1]))

\* C28: in the primary pass the argument name of every descriptor is absent
\* or made of uppercase letters and underscores only; a line whose flag is
\* followed by a lowercase or mixed-case word, or by one uppercase word and
\* nothing more, gives a descriptor without argument name, with
\* requires_value false and with that word in its description.
PlaceholdersUppercase ==
    (parsed /\ SomeOptionLine) =>
        LET first == FirstOccurrences(line_specs, 1)
        IN  /\ \A i \in 1..Len(options) :
                  \/ options[i].arg_name = None
                  \/ IsPlaceholderWord(options[i].arg_name)
            /\ \A k \in 1..Len(first) :
                  NoPlaceholderLine(first[k]) =>
                     \E i \in 1..Len(options) :
                        /\ LineMakes(first[k], options[i])
                        /\ options[i].arg_name = None
                        /\ options[i].requires_value = FALSE
                        /\ options[i].description = first[k].desc

\* "-x   file path", "-n   IDs kept" and "--name   NAME" were parsed
PlaceholdersUppercaseWitness ==
    /\ parsed
    /\ Len(line_specs) = 2
    /\ line_specs[1] \in { OptLine(0, S_x, FALSE, <<>>, <<>>, D_lower),
                            OptLine(0, S_n, FALSE, <<>>, <<>>, D_ids) }
    /\ line_specs[2] = OptLine(0, <<>>, FALSE, L_name, <<>>, A_NAME)
    /\ Len(options) = 2
    /\ options[1].description \in {D_lower, D_ids}
    /\ options[2].description = A_NAME
    /\ options[2].arg_name = None

\* a bracket token the fallback pass takes up: trimmed, it is not empty, does
\* not start with "usage" in any letter case, and starts with "-"
Eligible(tok) ==
    LET t == StrStrip(tok)
    IN  /\ t # <<>>
        /\ ~StartsWith(StrLower(t), <<"u","s","a","g","e">>)
        /\ t[1] = "-"

\* C29: in the fallback pass every descriptor has a short form starting with
\* "-" and no long form and comes from a bracket token that, trimmed, is not
\* empty, does not start with "usage" and starts with "-"; the other tokens
\* give no descriptor.
FallbackTokenFilter ==
    (parsed /\ ~SomeOptionLine) =>
        LET toks == AllTokens(line_specs)
        IN  /\ \A i \in 1..Len(options) :
                  /\ options[i].long = None
                  /\ options[i].short # None
                  /\ options[i].short[1] = "-"
                  /\ \E n \in 1..Len(toks) :
                        /\ Eligible(toks[n])
                        /\ options[i].short \in TokenShorts(toks[n])
            /\ (\A n \in 1..Len(toks) : ~Eligible(toks[n])) => options = <<>>

\* "tool [Usage notes] [file] [ -xy ]" was parsed: only -x and -y are found
FallbackTokenFilterWitness ==
    /\ parsed
    /\ line_specs = << RawLine(P_tool, <<T_usage, T_file, T_xy>>) >>
    /\ Len(options) = 2
    /\ options[1].short = S_x
    /\ options[2].short = <<"-", "y">>

-----------------------------------------------------------------------------
(* BaseUI.browse_files called with a list of extensions                     *)

\* the lists the callers pass: none (the assembler), [".pdf"] (select_file),
\* media_extensions (get_input_file)
E_pdf == <<".","p","d","f">>
PdfExtensions == {E_pdf}
MediaExtensions ==
    { <<".","m","p","4">>, <<".","a","v","i">>, <<".","m","o","v">>,
      <<".","m","k","v">>, <<".","w","e","b","m">>, <<".","g","i","f">>,
      <<".","m","p","3">>, <<".","w","a","v">>, <<".","o","g","g">>,
      <<".","f","l","a","c">>, <<".","m","4","a">>, <<".","a","a","c">> }
ExtensionLists == {{}, PdfExtensions, MediaExtensions}

\* os.path.basename
Basename(p) ==
    IF ~HasChar(p, "/") THEN p
    ELSE LET i == CHOOSE j \in 1..Len(p) :
                     p[j] = "/" /\ \A k \in (j + 1)..Len(p) : p[k] # "/"
         IN  SubSeq(p, i + 1, Len(p))

\* os.path.splitext(name)[1] of a file name: from the last dot on, empty when
\* there is no dot or only leading dots come before it
SplitExt(name) ==
    LET dots == { i \in 1..Len(name) : name[i] = "." }
    IN  IF dots = {} THEN <<>>
        ELSE LET i == CHOOSE j \in dots : \A k \in dots : k <= j
             IN  IF \A k \in 1..i : name[k] = "." THEN <<>>
                 ELSE SubSeq(name, i, Len(name))

\* os.listdir(dir): the names of the entries of dir
ListDir(dir) ==
    { Basename(p) : p \in { q \in (Dirs \cup Files) \ {dir} : Dirname(q) = dir } }

\* the rows added to the table below the ".." row: every directory, and the
\* files whose lower-cased extension is in the list when a list is given
TableRows(dir, exts) ==
    { <<"[D]", item>> : item \in { n \in ListDir(dir) : IsDir(JoinPath(dir, n)) } }
    \cup
    { <<"[F]", item>> :
         item \in { n \in ListDir(dir) :
                       /\ ~IsDir(JoinPath(dir, n))
                       /\ exts # {} => StrLower(SplitExt(n)) \in exts } }

\* what the user types at the prompt of the browser
I_apdf == <<"a",".","p","d","f">>
I_BPDF == <<"B",".","P","D","F">>
BrowseFilesAnswers == BrowserAnswers \cup {I_apdf, I_BPDF, PdfFile}

Browsing == [kind |-> "open", path |-> None]

\* browse_files was called in some directory with one of the lists
InitBrowse ==
    /\ ParseIdle
    /\ NavIdle
    /\ FetchIdle
    /\ MenuIdle
    /\ command_name = ProgTool /\ pc = "Idle" /\ command = <<>> /\ opt_idx = 0
    /\ cwd \in Dirs /\ browse_dir = cwd /\ unreadable \in SUBSET Dirs
    /\ popen_calls = <<>> /\ outcome = "Running" /\ last_input = None
    /\ last_prompt = "Idle" /\ exit_seen = FALSE /\ script = 0
    /\ command_history = <<>> /\ returncode = NoProcess /\ isatty = TRUE
    /\ template = NoTemplate
    /\ extensions \in ExtensionLists
    /\ table = {}
    /\ selected = Browsing

browserRest == <<command_name, pc, command, opt_idx, cwd, unreadable,
                 popen_calls, outcome, last_prompt, exit_seen, script,
                 sessVars, parseVars, navVars, fetchVars, menuVars>>

\* a pass of the loop in which os.listdir raises PermissionError: only the
\* ".." row was added, the browser moves to the parent directory
BrowseFilesDenied ==
    /\ selected = Browsing
    /\ browse_dir \in unreadable
    /\ table' = {}
    /\ browse_dir' = Dirname(browse_dir)
    /\ UNCHANGED <<extensions, selected, last_input, browserRest>>

\* a pass of the loop in which the table is printed and the prompt answered
BrowseFilesAnswer(choice) ==
    /\ selected = Browsing
    /\ browse_dir \notin unreadable
    /\ table' = TableRows(browse_dir, extensions)
    /\ last_input' = choice
    /\ LET r == BrowseChoice(browse_dir, choice)
       IN  /\ browse_dir' = r.dir
           /\ selected' = IF r.kind = "stay" THEN Browsing
                          ELSE [kind |-> r.kind, path |-> r.path]
    /\ UNCHANGED <<extensions, browserRest>>

NextBrowse ==
    \/ BrowseFilesDenied
    \/ \E choice \in BrowseFilesAnswers : BrowseFilesAnswer(choice)

SpecBrowse == InitBrowse /\ [][NextBrowse]_vars

\* the rows of files the table shows
FileRows == { row \in table : row[1] = "[F]" }

\* C30: when browse_files is called with a list of extensions, every path it
\* returns is a file whose lower-cased extension is in the list.
ReturnedPathHasListedExtension ==
    (selected.kind = "return" /\ extensions # {}) =>
        /\ selected.path \in Files
        /\ StrLower(SplitExt(Basename(selected.path))) \in extensions

\* the table of a browser with a list shows only files with a listed extension
ShownFilesHaveListedExtension ==
    extensions # {} =>
        \A row \in FileRows : StrLower(SplitExt(row[2])) \in extensions

-----------------------------------------------------------------------------
(* Properties of execute_command under the PDF menu (SpecMenu)              *)

\* the command shown by a PDF operation was confirmed and its run ended with
\* a status other than 0
FailedRun ==
    /\ menu_pc = "PdfConfirm"
    /\ last_input' = I_yes
    /\ returncode' # 0

\* C22: when a command run through execute_command ends with a non-zero
\* status, (command, "error") is appended to the history and nothing is
\* raised: no Exit signal is noted, the PDF tool stays open with its current
\* file, and its next prompt is shown (the pause of the menu loop, or the
\* command of the next page range).
FailedCommandKeepsMenu ==
    [][FailedRun =>
          /\ command_history' = Append(command_history, <<pdf_op, "error">>)
          /\ menu_pc' \in {"PdfPause", "PdfConfirm"}
          /\ exit_raised' = exit_raised
          /\ current_pdf' = current_pdf
          /\ pdf_op' = pdf_op]_vars

\* a command of the PDF tool failed and the menu loop is at its pause
FailedCommandWitness ==
    /\ menu_pc = "PdfPause"
    /\ last_prompt = "PdfConfirm"
    /\ last_input = I_yes
    /\ returncode = 1
    /\ command_history = << <<pdf_op, "error">> >>

-----------------------------------------------------------------------------
(* Properties of the session boundary run_magnet (Spec)                     *)

\* C21: every fault of a magnet session (the program is missing when the help
\* is fetched or when the built command is started, the template cannot be
\* written, on whichever path writes it) is caught inside run_magnet and
\* reported: no exception leaves run_magnet.
FaultsContained == outcome # "Escaped"

\* a fault that run_magnet catches and reports: the built command could not
\* be started, or the template could not be written from the builder
FaultReportedWitness ==
    /\ pc = "Done"
    /\ outcome = "Crashed"
    /\ template = NoTemplate

-----------------------------------------------------------------------------
(* Invariants of the draft (Spec)                                           *)

\* the tokens of the options that take a value; no answer of the model is
\* spelled like one of them
ValueFlagTokens ==
    { FlagToken(options[i]) : i \in { j \in 1..Len(options) : options[j].requires_value } }

\* what can be typed as a value: an answer that is not a navigation word
TypedValues == { a \in ValueAnswers : check_navigation(a) = NoAction }

\* C31: in every state of the session (every action-choice state and Finished
\* among them) each token of the draft that was appended for an option
\* requiring a value is immediately followed by the value typed for it; Back
\* or Exit at the value prompt leaves no such flag without its value.
FlagNeverWithoutValue ==
    \A i \in 2..Len(command) :
       command[i] \in ValueFlagTokens =>
          /\ i < Len(command)
          /\ command[i + 1] \in TypedValues

\* the value prompt was just answered with a value: the flag and that value
\* are the last two tokens of the draft
FlagNeverWithoutValueWitness ==
    /\ pc = "ChoosingAction"
    /\ last_prompt = "ValuePrompt"
    /\ Len(command) = 3
    /\ command[2] \in ValueFlagTokens
    /\ command[3] = last_input
    /\ last_input = I_outtxt

\* the navigation words as the protocol spells them, whatever the case and
\* the blanks around them
IsNavigationWord(t) ==
    StrLower(StrStrip(t)) \in
        { <<"b">>, <<"b","a","c","k">>, <<"q">>, <<"q","u","i","t">>, <<"e","x","i","t">> }

\* C32: after any sequence of assembler inputs no token of the draft other
\* than the first is a navigation word (b, back, q, quit, exit in any case,
\* with or without blanks around it): such an answer at the value prompt or
\* at the argument prompt navigates and is never appended.
NavigationWordsNeverTokens ==
    \A i \in 2..Len(command) : ~IsNavigationWord(command[i])

\* Back in capitals was typed at the argument prompt of a draft that holds a
\* typed value: the draft is as it was
NavigationWordsNeverTokensWitness ==
    /\ pc = "ChoosingAction"
    /\ last_prompt = "PositionalPrompt"
    /\ last_input = I_Back
    /\ Len(command) = 3
    /\ command[3] = I_outtxt

-----------------------------------------------------------------------------
(* The browser of the working directory (Spec)                              *)

\* C33: when "Change working directory?" was accepted and the browser is
\* answered with Back, the working directory is unchanged, no error occurs
\* and the assembler loop starts in the action-choice state with the draft
\* [program name].
BackInChdirBrowserHarmless ==
    [][(pc = "ChdirBrowse" /\ last_input' \in BackAnswers) =>
          /\ cwd' = cwd
          /\ outcome' # "Crashed"
          /\ pc' = "ChoosingAction"
          /\ command' = <<command_name>>]_vars

-----------------------------------------------------------------------------
(* Back and the commands of the menus (SpecMenu)                            *)

\* the last answer was a Back input given to a prompt that classifies its
\* answer (the prompts with a fixed list of answers reject it and ask again)
BackJustAnswered ==
    /\ last_input \in {<<"b">>, <<"B">>, <<"b","a","c","k">>, <<"B","a","c","k">>}
    /\ last_prompt \notin {"Builder", "ChdirConfirm", "ConfirmRun"}

\* C34: in every menu (the magnet assembler, each PDF operation including
\* split by ranges, the ffmpeg flow) a Back input never leads to a command
\* being run for the operation in progress: the step that follows a Back
\* input starts no subprocess and records no command.
BackNeverRunsCommand ==
    [][BackJustAnswered =>
          /\ Len(command_history') <= Len(command_history)
          /\ Len(popen_calls') <= Len(popen_calls)]_vars

-----------------------------------------------------------------------------
(* The current file of the PDF tools (SpecMenu)                             *)

\* extract pages, compress, rotate, add page numbers, split
FileOperations == {<<"2">>, <<"4">>, <<"5">>, <<"6">>, <<"7">>}

\* the prompts of an operation that has been invoked
InsideOperation == {"PdfOp", "PdfRanges", "PdfConfirm"}

\* the prompts of one run of main_menu
InsidePdfTools == InsideOperation \cup {"PdfMenu", "PdfBrowse", "PdfPause"}

\* C35: in every run of the PDF tools menu loop extract, compress, rotate,
\* add page numbers and split are invoked only with a current PDF set; when
\* none is set and no file gets selected (no PDF present, or Back in the
\* browser) the operation is not invoked and the menu prompts again; once
\* set, the current PDF is not reset while the loop runs.
OperationsNeedCurrentPdf ==
    [][ /\ (menu_pc' \in InsideOperation /\ pdf_op' \in FileOperations) => current_pdf'
        /\ (menu_pc = "PdfMenu" /\ ~current_pdf /\ pdf_files = 0
               /\ last_input' \in FileOperations)
             => menu_pc' = "PdfMenu" /\ ~current_pdf'
        /\ (menu_pc = "PdfBrowse" /\ ~current_pdf
               /\ last_input' \in {<<"b">>, <<"B","a","c","k">>})
             => menu_pc' = "PdfMenu" /\ ~current_pdf'
        /\ (menu_pc \in InsidePdfTools /\ menu_pc' \in InsidePdfTools /\ current_pdf)
             => current_pdf' ]_vars

\* an operation was chosen with no file selected, the browser was shown and
\* a file picked: the operation asks its first question
OperationsNeedCurrentPdfWitness ==
    /\ menu_pc = "PdfOp"
    /\ pdf_op \in FileOperations
    /\ last_prompt = "PdfBrowse"
    /\ current_pdf

-----------------------------------------------------------------------------
(* Progress of the file browser (SpecBrowseLive)                            *)

\* a pass that ends in PermissionError reads no input: the loop goes on by
\* itself, so a pass that changes the state is taken whenever it stays
\* possible
SpecBrowseLive == SpecBrowse /\ WF_vars(BrowseFilesDenied)

\* the table is printed and the prompt asked
AtBrowsePrompt == selected = Browsing /\ browse_dir \notin unreadable

\* C36: from every starting directory and every pattern of unreadable
\* directories, the unreadable root among them, browse_files reaches its
\* prompt after finitely many permission-denied passes; it never moves to
\* the parent directory forever without reading input.
BrowserReachesPrompt ==
    (selected = Browsing /\ browse_dir \in unreadable) ~> AtBrowsePrompt

-----------------------------------------------------------------------------
(* Declined confirmations (SpecMenu)                                        *)

\* the confirmation of execute_command is answered no
DeclinesExecute == menu_pc = "PdfConfirm" /\ last_input' = <<"n">>

\* the confirmation that follows Finished in the assembler is answered no
DeclinesFinalRun ==
    /\ menu_pc = "Magnet"
    /\ pc = "ConfirmRun"
    /\ outcome = "Finished"
    /\ last_input' = <<"n">>

\* C37: when "Run this command?" is answered no, execute_command starts no
\* subprocess, appends nothing to the command history and the operation goes
\* on as after a command that did not succeed; likewise the assembler starts
\* no subprocess after Finished.
DecliningRunsNothing ==
    [][ /\ DeclinesExecute =>
             /\ command_history' = command_history
             /\ returncode' = returncode
             /\ popen_calls' = popen_calls
             /\ menu_pc' \in {"PdfPause", "PdfConfirm"}
        /\ DeclinesFinalRun =>
             /\ popen_calls' = popen_calls
             /\ command_history' = command_history
             /\ returncode' = NoProcess
             /\ pc' = "Done"
             /\ command' = command ]_vars

\* the command of a PDF operation was shown and declined: nothing ran
DecliningRunsNothingWitness ==
    /\ menu_pc = "PdfPause"
    /\ last_prompt = "PdfConfirm"
    /\ last_input = <<"n">>
    /\ command_history = <<>>
    /\ returncode = NoProcess

-----------------------------------------------------------------------------
(* A provided help text (SpecFetch)                                         *)

\* C38: whenever a help text is passed to MagnetUI, the empty text included,
\* the program is not invoked to obtain help and the option model is the
\* result of parsing exactly the provided text.
ProvidedTextUsedAsIs ==
    (parsed /\ provided # None) =>
       /\ invoked = <<>>
       /\ help_text = provided
       /\ options = ParseHelpText(provided)

=============================================================================
